---- MODULE Spec2Model ----
(***************************************************************************)
(* A model of the solution-file parsers of simulate.c (the GeoSteiner      *)
(* simulation wrapper): the convergence-gap extractor, the coverage        *)
(* extractor, the selected-tree parser with its lookahead and rewind, the  *)
(* selected-ids extractor, the tree dump parser and the selection merge    *)
(* of the report renderer.                                                 *)
(*                                                                         *)
(* A text file is a sequence of lines (one fgets result each).  A line is  *)
(* a record of what the code's own tests (sscanf, strstr) find in it.      *)
(* Reals are exact rationals <<n, d>> with d > 0 in lowest terms; the      *)
(* floating-point values NAN and infinity are <<0, 0>> and <<1, 0>>.       *)
(***************************************************************************)
EXTENDS Integers, Sequences, FiniteSets, TLC

VARIABLES
    \* ---- parse_final_mip_gap and its two callers
    gap_log,      \* the solver log as the gap extractor reads it
    gap_open,     \* whether fopen(solution_file) succeeds
    gap_pos,      \* number of lines already read by fgets
    regs,         \* best_bound, incumbent, gap, latest_best_z, latest_branch_z0/z1
    gap_pc,       \* "start", "scan", "returned"
    final_gap,    \* the value returned ("none" before the return)
    console_gap,  \* what main prints for the gap
    report_gap,   \* the MIP Gap row of the report
    \* ---- parse_solution_coverage
    cov_log, cov_open, cov_pos, final_not_covered, coverage, cov_pc,
    \* ---- parse_fsts_from_solution
    sel_log, sel_pos, current_pos, fsts, fst_count, sel_pc,
    \* ---- parse_fsts_from_dump
    dump_log, dump_pos, dump_fsts, dump_pc,
    \* ---- create_rich_visualization: the selection merge
    mrg_dump, mrg_dump_open, mrg_log, mrg_log_open,
    all_fsts, num_all_fsts, selected_fst_ids, num_selected_ids, mrg_pc,
    \* ---- parse_terminals
    term_file,    \* the terminal file, a sequence of lines of tokens
    term_open,    \* whether fopen(terminals_file) succeeds
    term_pos,     \* number of tokens fscanf has consumed
    term_table,   \* terminals[0..count-1]
    term_ret,     \* the value returned (None before the return)
    term_pc,      \* "open", "scan", "done"
    \* ---- scale_coordinates
    sc_in,        \* two points <<x, y>> of the unit square
    sc_out,       \* their scaled coordinates <<scaled_x, scaled_y>> (None before the call)
    sc_pc,        \* number of calls made
    \* ---- main and the pipeline stages it calls
    main_args,    \* the options of the command line
    main_optind,  \* number of options getopt has returned
    main_opts,    \* n_terminals, budget, visualization_only and the four viz paths
    main_pc,      \* the stage main is at; "exited" after exit or return
    exit_status,  \* the exit status (None while running)
    main_trace,   \* messages printed and side effects made, in order
    \* ---- create_rich_visualization as a whole
    rnd_in,       \* the files it is given: terminal file, solver log, dump, report file
    rnd_pc,       \* the stage the renderer is at; "returned" at the end
    num_selected_fsts,  \* what parse_fsts_from_solution returned
    report        \* what has been written to the report file

gap_vars == <<gap_log, gap_open, gap_pos, regs, gap_pc, final_gap, console_gap, report_gap>>
cov_vars == <<cov_log, cov_open, cov_pos, final_not_covered, coverage, cov_pc>>
sel_vars == <<sel_log, sel_pos, current_pos, fsts, fst_count, sel_pc>>
dump_vars == <<dump_log, dump_pos, dump_fsts, dump_pc>>
mrg_vars == <<mrg_dump, mrg_dump_open, mrg_log, mrg_log_open,
              all_fsts, num_all_fsts, selected_fst_ids, num_selected_ids, mrg_pc>>
term_vars == <<term_file, term_open, term_pos, term_table, term_ret, term_pc>>
scale_vars == <<sc_in, sc_out, sc_pc>>
main_vars == <<main_args, main_optind, main_opts, main_pc, exit_status, main_trace>>
rnd_vars == <<rnd_in, rnd_pc, num_selected_fsts, report>>
vars == <<gap_vars, cov_vars, sel_vars, dump_vars, mrg_vars, term_vars, scale_vars, main_vars,
         rnd_vars>>
not_gap_vars ==
    <<cov_vars, sel_vars, dump_vars, mrg_vars, term_vars, scale_vars, main_vars, rnd_vars>>
not_cov_vars ==
    <<gap_vars, sel_vars, dump_vars, mrg_vars, term_vars, scale_vars, main_vars, rnd_vars>>
not_sel_vars ==
    <<gap_vars, cov_vars, dump_vars, mrg_vars, term_vars, scale_vars, main_vars, rnd_vars>>
not_dump_vars ==
    <<gap_vars, cov_vars, sel_vars, mrg_vars, term_vars, scale_vars, main_vars, rnd_vars>>
not_mrg_vars ==
    <<gap_vars, cov_vars, sel_vars, dump_vars, term_vars, scale_vars, main_vars, rnd_vars>>
not_scale_vars ==
    <<gap_vars, cov_vars, sel_vars, dump_vars, mrg_vars, term_vars, main_vars, rnd_vars>>
not_main_vars ==
    <<gap_vars, cov_vars, sel_vars, dump_vars, mrg_vars, term_vars, scale_vars, rnd_vars>>
not_rnd_vars ==
    <<gap_vars, cov_vars, sel_vars, dump_vars, mrg_vars, term_vars, scale_vars, main_vars>>
not_term_vars ==
    <<gap_vars, cov_vars, sel_vars, dump_vars, mrg_vars, scale_vars, main_vars, rnd_vars>>

\* ------------------------------------------------------------------ bounds
MaxGapLines == 3
MaxCovLines == 3
MaxSelLines == 4
MaxDumpLines == 3
MaxMergeLines == 3
MaxMergeDump == 2
MaxTermLines == 3
MaxArgs == 2
MaxRenderLines == 2

\* --------------------------------------------------------------- arithmetic
\* an absent value
None == <<>>
\* the doubles NAN and +infinity
NaN == <<0, 0>>
Inf == <<1, 0>>

Abs(n) == IF n < 0 THEN -n ELSE n

RECURSIVE GCD(_, _)
GCD(a, b) == IF b = 0 THEN a ELSE GCD(b, a % b)

\* the real n/d, d > 0, in lowest terms
Rat(n, d) == LET g == GCD(Abs(n), d) IN <<n \div g, d \div g>>

\* the real with integer value z
Real(z) == <<z, 1>>

isnan(v) == v = NaN

\* a - b, fabs(a), a / b on finite reals; a division by zero gives infinity or NaN
FSub(a, b) == Rat(a[1] * b[2] - b[1] * a[2], a[2] * b[2])
fabs(a) == <<Abs(a[1]), a[2]>>
FDiv(a, b) ==
    IF b[1] = 0 THEN (IF a[1] = 0 THEN NaN ELSE Inf)
    ELSE IF b[1] > 0 THEN Rat(a[1] * b[2], a[2] * b[1])
    ELSE Rat(-(a[1] * b[2]), a[2] * (-b[1]))

\* a < b, a > b on finite reals
FLess(a, b) == a[1] * b[2] < b[1] * a[2]
FGreater(a, b) == a[1] * b[2] > b[1] * a[2]

\* v >= 0.0 as C evaluates it: false for NaN, true for infinity
GE0(v) == IF v = NaN THEN FALSE ELSE v[1] >= 0

\* ====================================================================
\* parse_final_mip_gap
\* ====================================================================
\* A log line as the five matchers see it (None where a matcher finds nothing):
\*   m1  "Best bound = bb , Best integer = bi" at the start of the line: <<bb, bi>>
\*   m2  "MIP gap = g%" at the start of the line: <<g>> (percent)
\*   m3  "MIP optimal" and "tolerance" with a parsable "(g%": <<g>> (percent)
\*   m4  "New best:" and "Z = z": <<z>>
\*   m5  "Best branch is", "Z0 = z0" and "Z1 = z1": <<z0, z1>>
\* m1 and m2 both anchor at the first character, so no line has both.
NoHit == [m1 |-> None, m2 |-> None, m3 |-> None, m4 |-> None, m5 |-> None]

BoundPairs == {<<1, 2>>, <<2, 0>>}
GapPcts == {-5, 5}
TolPcts == {-3, 0}
BestZs == {0, 2}
BranchPairs == {<<0, 5>>, <<3, 2>>, <<-3, 0>>}

GapLines ==
    {NoHit}
    \cup {[NoHit EXCEPT !.m1 = p] : p \in BoundPairs}
    \cup {[NoHit EXCEPT !.m2 = <<g>>] : g \in GapPcts}
    \cup {[NoHit EXCEPT !.m3 = <<g>>] : g \in TolPcts}
    \cup {[NoHit EXCEPT !.m4 = <<z>>] : z \in BestZs}
    \cup {[NoHit EXCEPT !.m5 = p] : p \in BranchPairs}
    \cup {[NoHit EXCEPT !.m1 = <<1, 2>>, !.m3 = <<3>>],
          [NoHit EXCEPT !.m2 = <<5>>, !.m5 = <<3, 2>>],
          [NoHit EXCEPT !.m1 = <<2, 0>>, !.m4 = <<2>>, !.m5 = <<0, 5>>],
          [NoHit EXCEPT !.m3 = <<3>>, !.m4 = <<0>>, !.m5 = <<3, 2>>]}

\* the gap register before any line is read, line 48
InitialGapZero == Real(0)

InitialGap == NaN

\* lines 48-49
InitRegs ==
    [best_bound |-> NaN, incumbent |-> NaN, gap |-> InitialGap,
     latest_best_z |-> NaN, latest_branch_z0 |-> NaN, latest_branch_z1 |-> NaN]

\* fabs(a - b) / fabs(c), lines 57, 103, 115
RelGap(a, b, c) == FDiv(fabs(FSub(a, b)), fabs(c))

\* lines 54-59
Matcher1NoGuard(r, line) ==
    IF line.m1 = None THEN r
    ELSE [r EXCEPT !.best_bound = Real(line.m1[1]), !.incumbent = Real(line.m1[2]),
                   !.gap = RelGap(Real(line.m1[2]), Real(line.m1[1]), Real(line.m1[2]))]

Matcher1(r, line) ==
    IF line.m1 = None THEN r
    ELSE LET r1 == [r EXCEPT !.best_bound = Real(line.m1[1]),
                             !.incumbent = Real(line.m1[2])]
         IN IF ~isnan(r1.best_bound) /\ ~isnan(r1.incumbent) /\ r1.incumbent # Real(0)
            THEN [r1 EXCEPT !.gap = RelGap(r1.incumbent, r1.best_bound, r1.incumbent)]
            ELSE r1

\* lines 62-65
Matcher2(r, line) ==
    IF line.m2 = None THEN r ELSE [r EXCEPT !.gap = Rat(line.m2[1], 100)]

\* lines 68-77
Matcher3(r, line) ==
    IF line.m3 = None THEN r ELSE [r EXCEPT !.gap = Rat(line.m3[1], 100)]

\* lines 80-86
Matcher4SetsGap(r, line) ==
    IF line.m4 = None THEN r
    ELSE [r EXCEPT !.latest_best_z = Real(line.m4[1]), !.gap = Real(0)]

Matcher4(r, line) ==
    IF line.m4 = None THEN r ELSE [r EXCEPT !.latest_best_z = Real(line.m4[1])]

\* lines 89-107
Matcher5(r, line) ==
    IF line.m5 = None THEN r
    ELSE LET z0_val == Real(line.m5[1])
             z1_val == Real(line.m5[2])
             r1 == [r EXCEPT !.latest_branch_z0 = z0_val, !.latest_branch_z1 = z1_val]
         IN IF ~isnan(z0_val) /\ ~isnan(z1_val)
            THEN LET r2 == [r1 EXCEPT
                              !.incumbent = IF FLess(z0_val, z1_val) THEN z0_val ELSE z1_val,
                              !.best_bound = IF FGreater(z0_val, z1_val) THEN z0_val ELSE z1_val]
                 IN IF r2.incumbent # Real(0)
                    THEN [r2 EXCEPT !.gap = RelGap(r2.best_bound, r2.incumbent, r2.incumbent)]
                    ELSE r2
            ELSE r1

\* one iteration of the while loop, lines 51-108
ScanGapLineFirstWins(r, line) ==
    LET s == Matcher5(Matcher4(Matcher3(Matcher2(Matcher1(r, line), line), line), line), line)
    IN IF isnan(r.gap) THEN s ELSE [s EXCEPT !.gap = r.gap]

ScanGapLine(r, line) ==
    Matcher5(Matcher4(Matcher3(Matcher2(Matcher1(r, line), line), line), line), line)

\* lines 110-117
FallbackAlways(r) ==
    IF ~isnan(r.latest_best_z) /\ ~isnan(r.latest_branch_z0) /\ ~isnan(r.latest_branch_z1)
    THEN LET r1 == [r EXCEPT
                      !.incumbent = r.latest_best_z,
                      !.best_bound = IF FGreater(r.latest_branch_z0, r.latest_branch_z1)
                                     THEN r.latest_branch_z0 ELSE r.latest_branch_z1]
         IN IF r1.incumbent # Real(0)
            THEN [r1 EXCEPT !.gap = RelGap(r1.best_bound, r1.incumbent, r1.incumbent)]
            ELSE r1
    ELSE r

Fallback(r) ==
    IF isnan(r.gap) /\ ~isnan(r.latest_best_z)
       /\ ~isnan(r.latest_branch_z0) /\ ~isnan(r.latest_branch_z1)
    THEN LET r1 == [r EXCEPT
                      !.incumbent = r.latest_best_z,
                      !.best_bound = IF FGreater(r.latest_branch_z0, r.latest_branch_z1)
                                     THEN r.latest_branch_z0 ELSE r.latest_branch_z1]
         IN IF r1.incumbent # Real(0)
            THEN [r1 EXCEPT !.gap = RelGap(r1.best_bound, r1.incumbent, r1.incumbent)]
            ELSE r1
    ELSE r

\* main, lines 330-334
ConsoleText(v) ==
    IF GE0(v) THEN [kind |-> "numeric", value |-> v]
    ELSE [kind |-> "could_not_parse", value |-> None]

\* create_rich_visualization, lines 940-944
ReportRow(v) ==
    IF GE0(v) THEN [kind |-> "numeric", value |-> v]
    ELSE [kind |-> "not_available", value |-> None]

\* nothing printed yet
NotShown == [kind |-> "none", value |-> None]

GapIdle ==
    /\ gap_log = <<>> /\ gap_open = FALSE /\ gap_pos = 0 /\ regs = InitRegs
    /\ gap_pc = "idle" /\ final_gap = None /\ console_gap = NotShown /\ report_gap = NotShown

GapInit ==
    /\ gap_open \in BOOLEAN
    /\ gap_log \in IF gap_open THEN UNION {[1..n -> GapLines] : n \in 0..MaxGapLines}
                   ELSE {<<>>}
    /\ gap_pos = 0
    /\ regs = InitRegs
    /\ gap_pc = "start"
    /\ final_gap = None /\ console_gap = NotShown /\ report_gap = NotShown

\* lines 44-45: the log cannot be opened
GapOpenFail ==
    /\ gap_pc = "start" /\ ~gap_open
    /\ final_gap' = Rat(-1, 1)
    /\ gap_pc' = "returned"
    /\ UNCHANGED <<gap_log, gap_open, gap_pos, regs, console_gap, report_gap>>
    /\ UNCHANGED not_gap_vars

GapOpen ==
    /\ gap_pc = "start" /\ gap_open
    /\ gap_pc' = "scan"
    /\ UNCHANGED <<gap_log, gap_open, gap_pos, regs, final_gap, console_gap, report_gap>>
    /\ UNCHANGED not_gap_vars

GapReadLine ==
    /\ gap_pc = "scan" /\ gap_pos < Len(gap_log)
    /\ regs' = ScanGapLine(regs, gap_log[gap_pos + 1])
    /\ gap_pos' = gap_pos + 1
    /\ UNCHANGED <<gap_log, gap_open, gap_pc, final_gap, console_gap, report_gap>>
    /\ UNCHANGED not_gap_vars

\* end of file: the fallback, then return gap
GapReturn ==
    /\ gap_pc = "scan" /\ gap_pos = Len(gap_log)
    /\ regs' = Fallback(regs)
    /\ final_gap' = regs'.gap
    /\ gap_pc' = "returned"
    /\ UNCHANGED <<gap_log, gap_open, gap_pos, console_gap, report_gap>>
    /\ UNCHANGED not_gap_vars

MainShowGap ==
    /\ gap_pc = "returned" /\ console_gap = NotShown
    /\ console_gap' = ConsoleText(final_gap)
    /\ UNCHANGED <<gap_log, gap_open, gap_pos, regs, gap_pc, final_gap, report_gap>>
    /\ UNCHANGED not_gap_vars

RenderGapRow ==
    /\ gap_pc = "returned" /\ report_gap = NotShown
    /\ report_gap' = ReportRow(final_gap)
    /\ UNCHANGED <<gap_log, gap_open, gap_pos, regs, gap_pc, final_gap, console_gap>>
    /\ UNCHANGED not_gap_vars

\* ====================================================================
\* parse_solution_coverage
\* ====================================================================
\* the table size the renderer passes, and the size of final_not_covered
MAX_TERMINALS == 50
\* the threshold 0.5 in tenths
HalfTenths == 5

\* A log line as the coverage extractor sees it:
\*   marker  the line contains "not_covered[" and "] ="  (the two strstr tests)
\*   pre     the number of whitespace-separated tokens in front of the text
\*           not_covered[<idx>] = <val>; -1 when the line has no such text
\*   idx     the index in the brackets, val the value in tenths
\* sscanf with "%*s %*s %*s not_covered[%d] = %lf" skips exactly three tokens
\* and then needs the literal, so it converts both fields iff pre = 3.
CovLine(m, p, i, v) == [marker |-> m, pre |-> p, idx |-> i, val |-> v]
CovOther == CovLine(FALSE, -1, 0, 0)

CovLines ==
    {CovOther}
    \cup {CovLine(TRUE, 3, 0, v) : v \in {2, 5, 9}}
    \cup {CovLine(TRUE, 3, 1, v) : v \in {2, 9}}
    \cup {CovLine(TRUE, 3, i, 9) : i \in {-1, MAX_TERMINALS - 1, MAX_TERMINALS}}
    \cup {CovLine(TRUE, 0, 0, 9), CovLine(TRUE, 0, 1, 2), CovLine(TRUE, 4, 0, 9),
          CovLine(FALSE, 3, 0, 9)}

\* line 1117: the number of fields sscanf converts
CoverageSscanfAnyPrefix(line) == IF line.pre >= 0 THEN 2 ELSE 0

CoverageSscanf(line) == IF line.pre = 3 THEN 2 ELSE 0

\* lines 1115-1122: one line of the scan
CoverageStoreFirstOnly(fnc, line) ==
    IF line.marker /\ CoverageSscanf(line) = 2
       /\ line.idx >= 0 /\ line.idx < MAX_TERMINALS /\ fnc[line.idx] = 0
    THEN [fnc EXCEPT ![line.idx] = line.val]
    ELSE fnc

\* the same without the range test of line 1118, an index outside the table
\* landing on its nearest entry
CoverageStoreClamped(fnc, line) ==
    IF line.marker /\ CoverageSscanf(line) = 2
    THEN [fnc EXCEPT ![IF line.idx < 0 THEN 0
                       ELSE IF line.idx >= MAX_TERMINALS THEN MAX_TERMINALS - 1
                       ELSE line.idx] = line.val]
    ELSE fnc

CoverageStore(fnc, line) ==
    IF line.marker /\ CoverageSscanf(line) = 2
    THEN IF line.idx >= 0 /\ line.idx < MAX_TERMINALS
         THEN [fnc EXCEPT ![line.idx] = line.val]
         ELSE fnc
    ELSE fnc

\* line 1127
CoveredFlag(v) == IF v < HalfTenths THEN 1 ELSE 0

CovIdle ==
    /\ cov_log = <<>> /\ cov_open = FALSE /\ cov_pos = 0
    /\ final_not_covered = [i \in 0..(MAX_TERMINALS - 1) |-> 0]
    /\ coverage = [i \in 0..(MAX_TERMINALS - 1) |-> 0]
    /\ cov_pc = "idle"

CovInit ==
    /\ cov_open \in BOOLEAN
    /\ cov_log \in IF cov_open THEN UNION {[1..n -> CovLines] : n \in 0..MaxCovLines}
                   ELSE {<<>>}
    /\ cov_pos = 0
    /\ final_not_covered = [i \in 0..(MAX_TERMINALS - 1) |-> 0]
    \* int coverage[50] = {0}, line 686
    /\ coverage = [i \in 0..(MAX_TERMINALS - 1) |-> 0]
    /\ cov_pc = "start"

\* lines 1103-1111: initialise both arrays, then open the log
CovStart ==
    /\ cov_pc = "start"
    /\ coverage' = [i \in 0..(MAX_TERMINALS - 1) |-> 1]
    /\ final_not_covered' = [i \in 0..(MAX_TERMINALS - 1) |-> 0]
    /\ cov_pc' = IF cov_open THEN "scan" ELSE "failed"
    /\ UNCHANGED <<cov_log, cov_open, cov_pos>>
    /\ UNCHANGED not_cov_vars

\* lines 1114-1123
CovReadLine ==
    /\ cov_pc = "scan" /\ cov_pos < Len(cov_log)
    /\ final_not_covered' = CoverageStore(final_not_covered, cov_log[cov_pos + 1])
    /\ cov_pos' = cov_pos + 1
    /\ UNCHANGED <<cov_log, cov_open, coverage, cov_pc>>
    /\ UNCHANGED not_cov_vars

\* lines 1125-1131
CovFinish ==
    /\ cov_pc = "scan" /\ cov_pos = Len(cov_log)
    /\ coverage' = [i \in 0..(MAX_TERMINALS - 1) |-> CoveredFlag(final_not_covered[i])]
    /\ cov_pc' = "done"
    /\ UNCHANGED <<cov_log, cov_open, cov_pos, final_not_covered>>
    /\ UNCHANGED not_cov_vars

\* ====================================================================
\* parse_fsts_from_solution and parse_selected_fst_ids
\* ====================================================================
\* the capacity the renderer passes to both, lines 776 and 811
MAX_SELECTED == 50
\* terminal_ids[10], lines 1185 and 1320
MAX_FST_TERMINALS == 10

\* A log line as the two header scans and the geometry lookahead see it:
\*   hdr    <<id>> when the line holds "% fs" and ":" and sscanf("%% fs%d:")
\*          converts the id (the line then starts with '%'); None otherwise
\*   terms  the integers written after the first colon, up to the first text
\*          that is no integer (sscanf converts at most ten of them)
\*   geom   <<x, y>> (tenths) when sscanf("%lf %lf %d %c S") converts four
\*          fields and the character is 'T'; None otherwise
\*   stop   the line contains "% fs" or "EndPlot"
\* A header line starts with '%', so it is no geometry line, and it contains
\* "% fs", so stop holds for it.
SelLine(h, t, g, st) == [hdr |-> h, terms |-> t, geom |-> g, stop |-> st]
SelOther == SelLine(None, <<>>, None, FALSE)
SelEndPlot == SelLine(None, <<>>, None, TRUE)
SelHeader(id, t) == SelLine(<<id>>, t, None, TRUE)
SelGeom(x, y) == SelLine(None, <<>>, <<x, y>>, FALSE)
\* a geometry line with trailing text that contains "EndPlot"
SelGeomTrailing(x, y) == SelLine(None, <<>>, <<x, y>>, TRUE)

SelLines ==
    {SelOther, SelEndPlot,
     SelHeader(0, <<0, 1>>), SelHeader(1, <<0, 1, 2>>), SelHeader(7, <<1, 60>>),
     SelHeader(3, <<>>),
     SelGeom(5, 5), SelGeom(3, 7), SelGeomTrailing(1, 1)}

\* lines 1176-1191: the outer scan records a tree for this line
AcceptsHeader(line) == line.hdr # None /\ Len(line.terms) > 0

\* a conversion per integer of the line, however many
SscanfAll(terms) == terms

\* lines 1186-1189: the fields sscanf converts with its ten %d
Sscanf10(terms) ==
    SubSeq(terms, 1, IF Len(terms) < MAX_FST_TERMINALS THEN Len(terms) ELSE MAX_FST_TERMINALS)

\* lines 1192-1200
NewFst(line) ==
    [fst_id |-> line.hdr[1], selected |-> 1, terminal_ids |-> Sscanf10(line.terms),
     steiner_points |-> <<>>, cost |-> 0]

\* lines 1214-1218
SetSteinerLastWins(f, xy) == [f EXCEPT !.steiner_points = <<xy>>]

SetSteiner(f, xy) ==
    IF Len(f.steiner_points) = 0 THEN [f EXCEPT !.steiner_points = <<xy>>] ELSE f

\* line 1219: the lookahead stops at this line (it is tested after the geometry test)
StopsLookaheadHeaderOnly(line) == line.geom = None /\ line.hdr # None

StopsLookahead(line) == line.geom = None /\ line.stop

\* line 1221: where the outer scan resumes after a stop line read from `saved` to `after`
RewindNone(saved, after) == after

\* the seek goes back to the start of the log
RewindToStart(saved, after) == 0

Rewind(saved, after) == saved

SelIdle ==
    /\ sel_log = <<>> /\ sel_pos = 0 /\ current_pos = 0 /\ fsts = <<>>
    /\ fst_count = 0 /\ sel_pc = "idle"

\* logs with one header more than the capacity: headers only, and headers each
\* followed by a geometry line
SelLongLogs ==
    {[i \in 1..(MAX_SELECTED + 1) |-> SelHeader(i - 1, <<0, 1>>)],
     [i \in 1..(2 * MAX_SELECTED + 2) |->
         IF i % 2 = 1 THEN SelHeader(i \div 2, <<0, 1, 2>>) ELSE SelGeom(5, 5)]}

SelInit ==
    /\ sel_log \in UNION {[1..n -> SelLines] : n \in 0..MaxSelLines} \cup SelLongLogs
    /\ sel_pos = 0 /\ current_pos = 0 /\ fsts = <<>> /\ fst_count = 0
    /\ sel_pc = "outer"

\* one iteration of the outer loop up to the lookahead, lines 1171-1203
SelOuterRead ==
    /\ sel_pc = "outer" /\ sel_pos < Len(sel_log) /\ fst_count < MAX_SELECTED
    /\ LET line == sel_log[sel_pos + 1]
       IN /\ sel_pos' = sel_pos + 1
          /\ IF AcceptsHeader(line)
             THEN /\ fsts' = Append(fsts, NewFst(line))
                  /\ current_pos' = sel_pos + 1
                  /\ sel_pc' = "inner"
             ELSE UNCHANGED <<fsts, current_pos, sel_pc>>
    /\ UNCHANGED <<sel_log, fst_count>>
    /\ UNCHANGED not_sel_vars

\* one iteration of the lookahead loop, lines 1204-1225
SelInnerRead ==
    /\ sel_pc = "inner" /\ sel_pos < Len(sel_log)
    /\ LET line == sel_log[sel_pos + 1]
       IN IF line.geom # None
          THEN /\ fsts' = [fsts EXCEPT ![fst_count + 1] = SetSteiner(@, line.geom)]
               /\ sel_pos' = sel_pos + 1
               /\ current_pos' = sel_pos + 1
               /\ UNCHANGED <<fst_count, sel_pc>>
          ELSE IF StopsLookahead(line)
          THEN /\ sel_pos' = Rewind(current_pos, sel_pos + 1)
               /\ fst_count' = fst_count + 1
               /\ sel_pc' = "outer"
               /\ UNCHANGED <<fsts, current_pos>>
          ELSE /\ sel_pos' = sel_pos + 1
               /\ current_pos' = sel_pos + 1
               /\ UNCHANGED <<fsts, fst_count, sel_pc>>
    /\ UNCHANGED sel_log
    /\ UNCHANGED not_sel_vars

\* the lookahead reaches end of file, lines 1204 and 1227
SelInnerEof ==
    /\ sel_pc = "inner" /\ sel_pos = Len(sel_log)
    /\ fst_count' = fst_count + 1
    /\ sel_pc' = "outer"
    /\ UNCHANGED <<sel_log, sel_pos, current_pos, fsts>>
    /\ UNCHANGED not_sel_vars

\* lines 1171 and 1234-1235
SelReturn ==
    /\ sel_pc = "outer" /\ (sel_pos = Len(sel_log) \/ fst_count >= MAX_SELECTED)
    /\ sel_pc' = "done"
    /\ UNCHANGED <<sel_log, sel_pos, current_pos, fsts, fst_count>>
    /\ UNCHANGED not_sel_vars

\* parse_selected_fst_ids, lines 1279-1290: the ids of the first MAX_SELECTED headers
RECURSIVE SelectedIds(_, _)
SelectedIds(lines, ids) ==
    IF lines = <<>> \/ Len(ids) >= MAX_SELECTED THEN ids
    ELSE SelectedIds(Tail(lines),
                     IF Head(lines).hdr # None THEN Append(ids, Head(lines).hdr[1]) ELSE ids)

\* ====================================================================
\* parse_fsts_from_dump
\* ====================================================================
\* the capacity the renderer passes, line 772
MAX_ALL_FSTS == 100
\* "reasonable terminal range", line 1329
TERMINAL_RANGE == 50

\* A dump line: debug (it contains "DEBUG") and its tokens, split at blanks and
\* tabs.  num says whether the token passes the test of line 1327 (it starts
\* with a digit, or with '-' and a digit) and val is what atoi returns for it:
\*   Tok(v)      a decimal integer v
\*   JunkTok(v)  the digits of v followed by other characters ("1x", "3.9"):
\*               atoi converts the leading digits and stops
\*   WideTok(r)  a decimal integer too large for an int ("4294967297"): the
\*               result of atoi is not defined by the language; r is what
\*               the build returns (1 where the low 32 bits are kept, -1 or 0
\*               elsewhere)
\*   BadTok      any other text
Tok(v) == [kind |-> "int", num |-> TRUE, val |-> v]
JunkTok(v) == [kind |-> "junk", num |-> TRUE, val |-> v]
WideTok(r) == [kind |-> "wide", num |-> TRUE, val |-> r]
BadTok == [kind |-> "text", num |-> FALSE, val |-> 0]
DumpLine(d, t) == [debug |-> d, tokens |-> t]
DumpEmpty == DumpLine(FALSE, <<>>)

DumpLines ==
    {DumpEmpty,
     DumpLine(TRUE, <<Tok(1), Tok(2)>>),
     DumpLine(FALSE, <<Tok(0), Tok(1)>>),
     DumpLine(FALSE, <<Tok(4), Tok(1), Tok(0)>>),
     DumpLine(FALSE, <<Tok(7)>>),
     DumpLine(FALSE, <<Tok(3), BadTok, Tok(2)>>),
     DumpLine(FALSE, <<Tok(TERMINAL_RANGE), Tok(1)>>),
     DumpLine(FALSE, <<Tok(-1), Tok(2), Tok(3)>>),
     DumpLine(FALSE, <<JunkTok(1), Tok(2)>>),
     DumpLine(FALSE, <<WideTok(1), Tok(2)>>),
     DumpLine(FALSE, <<WideTok(-1), Tok(2), Tok(3)>>),
     DumpLine(FALSE, [i \in 1..(MAX_FST_TERMINALS + 1) |-> Tok(i - 1)])}

\* lines 1325-1335: the terminals collected from the tokens
RECURSIVE DumpTerminals(_, _)
DumpTerminals(tokens, terminals) ==
    IF tokens = <<>> \/ Len(terminals) >= MAX_FST_TERMINALS THEN terminals
    ELSE LET token == Head(tokens)
         IN DumpTerminals(Tail(tokens),
                IF token.num /\ token.val >= 0 /\ token.val < TERMINAL_RANGE
                THEN Append(terminals, token.val) ELSE terminals)

\* line 1339: the id given to a tree stored when `count` trees are stored and
\* `lineno` lines have been read
DumpIdByLine(count, lineno) == lineno - 1

DumpId(count, lineno) == count

\* lines 1339-1347
DumpFst(count, lineno, terminals) ==
    [fst_id |-> DumpId(count, lineno), selected |-> 0, terminal_ids |-> terminals,
     num_steiner_points |-> IF Len(terminals) > 2 THEN 1 ELSE 0,
     cost |-> 100000 + count * 10000]

\* lines 1311-1348: one line of the dump; fs are the trees stored so far
DumpScanLine(fs, lineno, line) ==
    IF line.debug \/ line.tokens = <<>> THEN fs
    ELSE LET terminals == DumpTerminals(line.tokens, <<>>)
         IN IF Len(terminals) >= 2
            THEN Append(fs, DumpFst(Len(fs), lineno, terminals))
            ELSE fs

DumpIdle ==
    /\ dump_log = <<>> /\ dump_pos = 0 /\ dump_fsts = <<>> /\ dump_pc = "idle"

\* a dump with one tree more than the capacity, behind a skipped line
DumpLongLogs ==
    {[i \in 1..(MAX_ALL_FSTS + 2) |->
         IF i = 1 THEN DumpLine(FALSE, <<Tok(7)>>)
         ELSE DumpLine(FALSE, <<Tok(i % TERMINAL_RANGE), Tok(1)>>)]}

DumpInit ==
    /\ dump_log \in UNION {[1..n -> DumpLines] : n \in 0..MaxDumpLines} \cup DumpLongLogs
    /\ dump_pos = 0 /\ dump_fsts = <<>> /\ dump_pc = "scan"

\* one iteration of the while loop, lines 1309-1349
DumpReadLine ==
    /\ dump_pc = "scan" /\ dump_pos < Len(dump_log) /\ Len(dump_fsts) < MAX_ALL_FSTS
    /\ dump_fsts' = DumpScanLine(dump_fsts, dump_pos + 1, dump_log[dump_pos + 1])
    /\ dump_pos' = dump_pos + 1
    /\ UNCHANGED <<dump_log, dump_pc>>
    /\ UNCHANGED not_dump_vars

\* lines 1309 and 1351-1352
DumpReturn ==
    /\ dump_pc = "scan" /\ (dump_pos = Len(dump_log) \/ Len(dump_fsts) >= MAX_ALL_FSTS)
    /\ dump_pc' = "done"
    /\ UNCHANGED <<dump_log, dump_pos, dump_fsts>>
    /\ UNCHANGED not_dump_vars

\* the whole of parse_fsts_from_dump on an open file
RECURSIVE ParseDump(_, _, _)
ParseDump(lines, lineno, fs) ==
    IF lines = <<>> \/ Len(fs) >= MAX_ALL_FSTS THEN fs
    ELSE ParseDump(Tail(lines), lineno + 1, DumpScanLine(fs, lineno, Head(lines)))

\* ====================================================================
\* create_rich_visualization: the tree universe and its selection flags
\* ====================================================================
MergeDumpLines ==
    {DumpEmpty,
     DumpLine(FALSE, <<Tok(0), Tok(1)>>),
     DumpLine(FALSE, <<Tok(4), Tok(1), Tok(0)>>),
     DumpLine(FALSE, <<Tok(7)>>)}

MergeLogLines ==
    {SelOther, SelHeader(0, <<0, 1>>), SelHeader(2, <<0, 1, 2>>), SelHeader(1, <<>>),
     SelGeom(5, 5)}

\* lines 796-807: the selected flag of the tree with this id
IsSelectedIdAny(id, ids) == Len(ids) > 0

IsSelectedId(id, ids) == \E j \in 1..Len(ids) : id = ids[j]

MarkSelected(fs, n, ids) ==
    [i \in 1..Len(fs) |->
        IF i <= n THEN [fs[i] EXCEPT !.selected = IF IsSelectedId(fs[i].fst_id, ids) THEN 1 ELSE 0]
        ELSE fs[i]]

MrgIdle ==
    /\ mrg_dump = <<>> /\ mrg_dump_open = FALSE /\ mrg_log = <<>> /\ mrg_log_open = FALSE
    /\ all_fsts = <<>> /\ num_all_fsts = 0 /\ selected_fst_ids = <<>>
    /\ num_selected_ids = 0 /\ mrg_pc = "idle"

MrgInit ==
    /\ mrg_dump_open \in BOOLEAN
    /\ mrg_dump \in IF mrg_dump_open
                    THEN UNION {[1..n -> MergeDumpLines] : n \in 0..MaxMergeDump}
                    ELSE {<<>>}
    /\ mrg_log_open \in BOOLEAN
    /\ mrg_log \in IF mrg_log_open
                   THEN UNION {[1..n -> MergeLogLines] : n \in 0..MaxMergeLines}
                   ELSE {<<>>}
    /\ all_fsts = <<>> /\ num_all_fsts = 0 /\ selected_fst_ids = <<>>
    /\ num_selected_ids = 0 /\ mrg_pc = "dump"

\* lines 771-772 (parse_fsts_from_dump returns -1 when the dump cannot be opened)
MrgParseDump ==
    /\ mrg_pc = "dump"
    /\ all_fsts' = IF mrg_dump_open THEN ParseDump(mrg_dump, 1, <<>>) ELSE <<>>
    /\ num_all_fsts' = IF mrg_dump_open THEN Len(all_fsts') ELSE -1
    /\ mrg_pc' = "ids"
    /\ UNCHANGED <<mrg_dump, mrg_dump_open, mrg_log, mrg_log_open,
                   selected_fst_ids, num_selected_ids>>
    /\ UNCHANGED not_mrg_vars

\* lines 775-776 (parse_selected_fst_ids returns -1 when the log cannot be opened)
MrgParseIds ==
    /\ mrg_pc = "ids"
    /\ selected_fst_ids' = IF mrg_log_open THEN SelectedIds(mrg_log, <<>>) ELSE <<>>
    /\ num_selected_ids' = IF mrg_log_open THEN Len(selected_fst_ids') ELSE -1
    /\ mrg_pc' = "mark"
    /\ UNCHANGED <<mrg_dump, mrg_dump_open, mrg_log, mrg_log_open, all_fsts, num_all_fsts>>
    /\ UNCHANGED not_mrg_vars

\* lines 796-807
MrgMark ==
    /\ mrg_pc = "mark"
    /\ all_fsts' = MarkSelected(all_fsts, num_all_fsts,
                                SubSeq(selected_fst_ids, 1, num_selected_ids))
    /\ mrg_pc' = "done"
    /\ UNCHANGED <<mrg_dump, mrg_dump_open, mrg_log, mrg_log_open, num_all_fsts,
                   selected_fst_ids, num_selected_ids>>
    /\ UNCHANGED not_mrg_vars

\* ====================================================================
\* parse_terminals
\* ====================================================================
\* the capacity the renderer passes, line 696
MAX_TERMINAL_TABLE == 50

RECURSIVE Pow10(_)
Pow10(e) == IF e = 0 THEN 1 ELSE 10 * Pow10(e - 1)

\* A token of the terminal file.  FTok(m, e) is the decimal text of m with e
\* digits behind the point ("0.1" is FTok(1, 1), "50" is FTok(50, 0)); %lf
\* converts it to the real m / 10^e.  BadFTok is text %lf cannot convert.
FTok(m, e) == [num |-> TRUE, mant |-> m, decimals |-> e]
BadFTok == [num |-> FALSE, mant |-> 0, decimals |-> 0]
strtod(t) == Rat(t.mant, Pow10(t.decimals))

\* lines of a terminal file: two well-formed lines, a blank line, a line of
\* text, a line with two fields, a line with four fields
TermLines ==
    {<<FTok(1, 1), FTok(2, 1), FTok(50, 0)>>,
     <<FTok(3, 1), FTok(25, 2), FTok(605, 1)>>,
     <<>>,
     <<BadFTok>>,
     <<FTok(5, 1), FTok(6, 1)>>,
     <<FTok(7, 1), FTok(8, 1), FTok(90, 0), FTok(9, 0)>>}

\* a file with one well-formed line more than the table holds
TermLongFiles ==
    {[i \in 1..(MAX_TERMINAL_TABLE + 1) |-> <<FTok(i, 2), FTok(2, 1), FTok(50, 0)>>]}

\* fscanf reads the file as one stream of tokens: white space, line ends
\* included, only separates them
RECURSIVE TokenStream(_)
TokenStream(lines) ==
    IF lines = <<>> THEN <<>> ELSE Head(lines) \o TokenStream(Tail(lines))

\* line 1081: the number of conversions fscanf(fp, "%lf %lf %lf") makes at
\* position pos of the stream (0 also stands for EOF)
RECURSIVE Fscanf3(_, _, _)
Fscanf3(stream, pos, done) ==
    IF done = 3 \/ pos + 1 > Len(stream) \/ ~stream[pos + 1].num THEN done
    ELSE Fscanf3(stream, pos + 1, done + 1)

\* line 1086: the id given to the terminal stored when count are stored
TerminalIdOneBased(count) == count + 1

TerminalId(count) == count

\* lines 1082-1086
StoreTerminal(stream, pos, count) ==
    [x |-> strtod(stream[pos + 1]), y |-> strtod(stream[pos + 2]),
     battery |-> strtod(stream[pos + 3]), covered |-> 1,
     terminal_id |-> TerminalId(count)]

TermIdle ==
    /\ term_file = <<>> /\ term_open = FALSE /\ term_pos = 0 /\ term_table = <<>>
    /\ term_ret = None /\ term_pc = "idle"

TermInit ==
    /\ term_open \in BOOLEAN
    /\ term_file \in IF term_open
                     THEN UNION {[1..n -> TermLines] : n \in 0..MaxTermLines}
                          \cup TermLongFiles
                     ELSE {<<>>}
    /\ term_pos = 0 /\ term_table = <<>> /\ term_ret = None /\ term_pc = "open"

\* lines 1076-1079
TermOpenFail ==
    /\ term_pc = "open" /\ ~term_open
    /\ term_ret' = <<-1>> /\ term_pc' = "done"
    /\ UNCHANGED <<term_file, term_open, term_pos, term_table>>
    /\ UNCHANGED not_term_vars

TermOpen ==
    /\ term_pc = "open" /\ term_open
    /\ term_pc' = "scan"
    /\ UNCHANGED <<term_file, term_open, term_pos, term_table, term_ret>>
    /\ UNCHANGED not_term_vars

\* one iteration of the loop, lines 1081-1088
TermReadTriple ==
    /\ term_pc = "scan" /\ Len(term_table) < MAX_TERMINAL_TABLE
    /\ Fscanf3(TokenStream(term_file), term_pos, 0) = 3
    /\ term_table' = Append(term_table,
                            StoreTerminal(TokenStream(term_file), term_pos, Len(term_table)))
    /\ term_pos' = term_pos + 3
    /\ UNCHANGED <<term_file, term_open, term_ret, term_pc>>
    /\ UNCHANGED not_term_vars

\* the loop ends (table full, or fscanf converted fewer than three fields),
\* lines 1081 and 1090-1091
TermReturn ==
    /\ term_pc = "scan"
    /\ \/ Len(term_table) >= MAX_TERMINAL_TABLE
       \/ Fscanf3(TokenStream(term_file), term_pos, 0) # 3
    /\ term_ret' = <<Len(term_table)>> /\ term_pc' = "done"
    /\ UNCHANGED <<term_file, term_open, term_pos, term_table>>
    /\ UNCHANGED not_term_vars

\* the whole of parse_terminals on an open file
RECURSIVE ParseTerminals(_, _, _)
ParseTerminals(stream, pos, ts) ==
    IF Len(ts) >= MAX_TERMINAL_TABLE \/ Fscanf3(stream, pos, 0) # 3 THEN ts
    ELSE ParseTerminals(stream, pos + 3, Append(ts, StoreTerminal(stream, pos, Len(ts))))

\* ====================================================================
\* scale_coordinates
\* ====================================================================
\* lines 1151-1153
margin == 50
width == 800
height == 600

\* a * b on finite reals
FMul(a, b) == Rat(a[1] * b[1], a[2] * b[2])

\* (int) of a finite real: the fraction is discarded, toward zero
IntCast(a) == IF a[1] >= 0 THEN a[1] \div a[2] ELSE -((-a[1]) \div a[2])

\* the same without the flip of the y axis
ScaleNoFlip(x, y) ==
    <<margin + IntCast(FMul(x, Real(width - 2 * margin))),
      margin + IntCast(FMul(y, Real(height - 2 * margin)))>>

\* lines 1155-1156: <<*scaled_x, *scaled_y>>
scale_coordinates(x, y) ==
    <<margin + IntCast(FMul(x, Real(width - 2 * margin))),
      margin + IntCast(FMul(FSub(Real(1), y), Real(height - 2 * margin)))>>

\* coordinates in [0, 1], all of them binary fractions, so that the products
\* with 700 and 500 are exact in double arithmetic as well
UnitSamples ==
    {<<0, 1>>, <<1, 1024>>, <<1, 512>>, <<1, 2>>, <<3, 4>>, <<1023, 1024>>, <<1, 1>>}

ScaleIdle == sc_in = <<>> /\ sc_out = <<>> /\ sc_pc = 0

ScaleInit ==
    /\ sc_in \in {<<<<x1, y1>>, <<x2, y2>>>> : x1 \in UnitSamples, y1 \in UnitSamples,
                                               x2 \in UnitSamples, y2 \in UnitSamples}
    /\ sc_out = <<None, None>> /\ sc_pc = 0

\* a call of scale_coordinates on the next point
ScaleCall ==
    /\ sc_pc < 2
    /\ sc_out' = [sc_out EXCEPT ![sc_pc + 1] =
                      scale_coordinates(sc_in[sc_pc + 1][1], sc_in[sc_pc + 1][2])]
    /\ sc_pc' = sc_pc + 1
    /\ UNCHANGED sc_in
    /\ UNCHANGED not_scale_vars

\* ====================================================================
\* main and the stages of the pipeline
\* ====================================================================
\* An option as getopt returns it: its letter ("?" for an option that is not
\* in the option string) and its argument: the value atoi gives for -n and
\* -b, the length of the path for -t, -f, -r and -w, 0 for the others.
Opt(o, a) == [opt |-> o, arg |-> a]

ArgOptions ==
    {Opt("n", 3), Opt("n", 0), Opt("b", 5), Opt("b", -2), Opt("h", 0), Opt("?", 0),
     Opt("t", 9), Opt("t", 0), Opt("f", 9), Opt("r", 9), Opt("w", 9)}

\* command lines with more options than MaxArgs
LongCommandLines ==
    {<<Opt("t", 9), Opt("f", 9), Opt("r", 9), Opt("w", 9)>>,
     <<Opt("w", 9), Opt("r", 9), Opt("f", 9), Opt("t", 9), Opt("?", 0)>>,
     <<Opt("t", 9), Opt("f", 9), Opt("r", 9)>>,
     <<Opt("t", 9), Opt("f", 9), Opt("r", 9), Opt("w", 0)>>,
     <<Opt("n", 3), Opt("b", 5), Opt("t", 9)>>,
     <<Opt("n", 3), Opt("b", 5), Opt("?", 0)>>,
     <<Opt("n", 3), Opt("b", 5), Opt("h", 0)>>,
     <<Opt("b", 5), Opt("n", 0), Opt("n", 3)>>}

\* what system() reports for a tool: its exit status, 124 for a timeout, 127
\* for a command the shell cannot find; -1 when system() itself fails
ExitCodes == {0, 1, 124, 127, -1}

\* lines 176-189
InitialOpts ==
    [n_terminals |-> 0, budget |-> 0, visualization_only |-> 0,
     viz_terminals |-> 0, viz_fsts |-> 0, viz_solution |-> 0, viz_output |-> 0]

\* lines 193-232: the assignment an option makes
SetOpt(o, opt) ==
    IF opt.opt = "n" THEN [o EXCEPT !.n_terminals = opt.arg]
    ELSE IF opt.opt = "b" THEN [o EXCEPT !.budget = opt.arg]
    ELSE IF opt.opt = "t" THEN [o EXCEPT !.viz_terminals = opt.arg, !.visualization_only = 1]
    ELSE IF opt.opt = "f" THEN [o EXCEPT !.viz_fsts = opt.arg, !.visualization_only = 1]
    ELSE IF opt.opt = "r" THEN [o EXCEPT !.viz_solution = opt.arg, !.visualization_only = 1]
    ELSE IF opt.opt = "w" THEN [o EXCEPT !.viz_output = opt.arg, !.visualization_only = 1]
    ELSE o

\* lines 241-242
VizArgsMissing(o) ==
    o.viz_terminals = 0 \/ o.viz_fsts = 0 \/ o.viz_solution = 0 \/ o.viz_output = 0

\* lines 269-278, with the test of the budget left out
FullArgsInvalidCountOnly(o) == o.n_terminals <= 0

FullArgsInvalid(o) == o.n_terminals <= 0 \/ o.budget <= 0

\* the result of the tool is reported and the pipeline goes on
FstsFatalNever(rc) == FALSE

\* lines 438-441 and 462-465: the tool's result ends the program
FstsFatal(rc) == rc # 0

\* lines 489-492: the solver's result is reported
SolverWarned(rc) == rc # 0 /\ rc # 124

\* the status main returns after the renderer has come back, lines 265 and 346
FinishStatus(trace) == 0

MainIdle ==
    /\ main_args = <<>> /\ main_optind = 0 /\ main_opts = InitialOpts /\ main_pc = "idle"
    /\ exit_status = None /\ main_trace = <<>>

MainInit ==
    /\ main_args \in UNION {[1..n -> ArgOptions] : n \in 0..MaxArgs} \cup LongCommandLines
    /\ main_optind = 0 /\ main_opts = InitialOpts /\ main_pc = "getopt"
    /\ exit_status = None /\ main_trace = <<>>

\* exit(code) or return code from main, after printing the messages
Exits(code, events) ==
    /\ exit_status' = <<code>> /\ main_pc' = "exited"
    /\ main_trace' = main_trace \o events

\* one iteration of the getopt loop, lines 191-237
MainGetopt ==
    /\ main_pc = "getopt" /\ main_optind < Len(main_args)
    /\ LET opt == main_args[main_optind + 1]
       IN /\ main_optind' = main_optind + 1
          /\ main_opts' = SetOpt(main_opts, opt)
          /\ IF opt.opt = "h" THEN Exits(0, <<"usage">>)
             ELSE IF opt.opt = "?" THEN Exits(1, <<"usage">>)
             ELSE UNCHANGED <<main_pc, exit_status, main_trace>>
    /\ UNCHANGED main_args
    /\ UNCHANGED not_main_vars

\* lines 240-250
MainVizArgsMissing ==
    /\ main_pc = "getopt" /\ main_optind = Len(main_args)
    /\ main_opts.visualization_only = 1 /\ VizArgsMissing(main_opts)
    /\ Exits(1, <<"err_viz_args", "usage">>)
    /\ UNCHANGED <<main_args, main_optind, main_opts>>
    /\ UNCHANGED not_main_vars

\* lines 252-261 and run_visualization_only up to the renderer, lines 627-678
MainVizStart ==
    /\ main_pc = "getopt" /\ main_optind = Len(main_args)
    /\ main_opts.visualization_only = 1 /\ ~VizArgsMissing(main_opts)
    /\ \E missing \in {"none", "terminals", "fsts", "solution"},
          python \in {"absent", "failed", "ok"} :
          IF missing # "none" THEN Exits(1, <<"err_file_not_found">>)
          ELSE /\ main_pc' = IF python = "ok" THEN "finish" ELSE "render"
               /\ main_trace' = main_trace \o
                     (IF python = "absent" THEN <<>>
                      ELSE IF python = "ok" THEN <<"run_python", "report">>
                      ELSE <<"run_python">>)
               /\ UNCHANGED exit_status
    /\ UNCHANGED <<main_args, main_optind, main_opts>>
    /\ UNCHANGED not_main_vars

\* lines 268-278
MainFullArgsInvalid ==
    /\ main_pc = "getopt" /\ main_optind = Len(main_args)
    /\ main_opts.visualization_only = 0 /\ FullArgsInvalid(main_opts)
    /\ Exits(1, <<IF main_opts.n_terminals <= 0 THEN "err_terminal_count" ELSE "err_budget",
                  "usage">>)
    /\ UNCHANGED <<main_args, main_optind, main_opts>>
    /\ UNCHANGED not_main_vars

\* lines 280-298 and create_directory, lines 578-602
MainCreateDirectory ==
    /\ main_pc = "getopt" /\ main_optind = Len(main_args)
    /\ main_opts.visualization_only = 0 /\ ~FullArgsInvalid(main_opts)
    /\ \E ok \in BOOLEAN :
          IF ok THEN /\ main_pc' = "terminals"
                     /\ main_trace' = Append(main_trace, "mkdir")
                     /\ UNCHANGED exit_status
          ELSE Exits(1, <<"err_mkdir">>)
    /\ UNCHANGED <<main_args, main_optind, main_opts>>
    /\ UNCHANGED not_main_vars

\* lines 306-309 and generate_terminals, lines 386-422
MainGenerateTerminals ==
    /\ main_pc = "terminals"
    /\ \E ok \in BOOLEAN :
          IF ok THEN /\ main_pc' = "efst"
                     /\ main_trace' = Append(main_trace, "write_terminals")
                     /\ UNCHANGED exit_status
          ELSE Exits(1, <<"err_terminals_create">>)
    /\ UNCHANGED <<main_args, main_optind, main_opts>>
    /\ UNCHANGED not_main_vars

\* lines 311-314 and generate_fsts, lines 424-446
MainGenerateFsts ==
    /\ main_pc = "efst"
    /\ \E rc \in ExitCodes :
          IF FstsFatal(rc) THEN Exits(1, <<"run_efst", "err_efst">>)
          ELSE /\ main_pc' = "dumpfst"
               /\ main_trace' = main_trace \o
                     (IF rc # 0 THEN <<"run_efst", "err_efst">> ELSE <<"run_efst">>)
               /\ UNCHANGED exit_status
    /\ UNCHANGED <<main_args, main_optind, main_opts>>
    /\ UNCHANGED not_main_vars

\* lines 316-321 and generate_fst_dump, lines 448-470
MainGenerateFstDump ==
    /\ main_pc = "dumpfst"
    /\ \E rc \in ExitCodes :
          IF FstsFatal(rc) THEN Exits(1, <<"run_dumpfst", "err_dumpfst">>)
          ELSE /\ main_pc' = "bb"
               /\ main_trace' = main_trace \o
                     (IF rc # 0 THEN <<"run_dumpfst", "err_dumpfst">> ELSE <<"run_dumpfst">>)
               /\ UNCHANGED exit_status
    /\ UNCHANGED <<main_args, main_optind, main_opts>>
    /\ UNCHANGED not_main_vars

\* lines 323-326 and solve_smt, lines 472-497
MainSolveSmt ==
    /\ main_pc = "bb"
    /\ \E rc \in ExitCodes :
          main_trace' = main_trace \o
              (IF SolverWarned(rc) THEN <<"run_bb", "warn_bb">> ELSE <<"run_bb">>)
    /\ main_pc' = "gap"
    /\ UNCHANGED <<main_args, main_optind, main_opts, exit_status>>
    /\ UNCHANGED not_main_vars

\* lines 328-335: parse_final_mip_gap on the solver log and the line printed
\* for it, a value or "Could not parse"
MainParseGap ==
    /\ main_pc = "gap"
    /\ \E parsed \in BOOLEAN :
          main_trace' = main_trace \o
              (IF parsed THEN <<"parse_gap">> ELSE <<"parse_gap", "warn_gap">>)
    /\ main_pc' = "render"
    /\ UNCHANGED <<main_args, main_optind, main_opts, exit_status>>
    /\ UNCHANGED not_main_vars

\* create_rich_visualization as its caller sees it, lines 695-719 and 1063-1067:
\* num_terminals is what parse_terminals returns, html is whether the report
\* file can be created
MainRender ==
    /\ main_pc = "render"
    /\ \E num_terminals \in {-1, 0, 3}, html \in BOOLEAN :
          main_trace' = main_trace \o
              (IF num_terminals <= 0 THEN <<"render", "err_parse_terminals">>
               ELSE IF ~html THEN <<"render", "err_html">>
               ELSE <<"render", "report">>)
    /\ main_pc' = "finish"
    /\ UNCHANGED <<main_args, main_optind, main_opts, exit_status>>
    /\ UNCHANGED not_main_vars

\* lines 263-265 and 340-346
MainFinish ==
    /\ main_pc = "finish"
    /\ Exits(FinishStatus(main_trace), <<"success">>)
    /\ UNCHANGED <<main_args, main_optind, main_opts>>
    /\ UNCHANGED not_main_vars

\* ====================================================================
\* create_rich_visualization from its first line to its last
\* ====================================================================
\* A line of the solver log as all four readers of the log see it
LogLine(c, sl, g) == [cov |-> c, sel |-> sl, gap |-> g]

RenderLogLines ==
    {LogLine(CovOther, SelOther, NoHit),
     LogLine(CovLine(TRUE, 3, 0, 9), SelOther, NoHit),
     LogLine(CovOther, SelHeader(0, <<0, -1, 1>>), NoHit),
     LogLine(CovOther, SelHeader(1, <<1, 0, 2>>), NoHit),
     LogLine(CovOther, SelHeader(3, <<>>), NoHit),
     LogLine(CovOther, SelGeom(5, 5), NoHit),
     LogLine(CovOther, SelOther, [NoHit EXCEPT !.m2 = <<5>>])}

CovView(log) == [i \in 1..Len(log) |-> log[i].cov]
SelView(log) == [i \in 1..Len(log) |-> log[i].sel]
GapView(log) == [i \in 1..Len(log) |-> log[i].gap]

\* a log with one tree header more than the table holds, every header with
\* eleven terminal indices and every second one followed by geometry
RenderLongLog ==
    [i \in 1..(2 * MAX_SELECTED + 2) |->
        IF i % 2 = 1
        THEN LogLine(CovOther,
                     SelHeader(i \div 2, [j \in 1..(MAX_FST_TERMINALS + 1) |-> j - 1]), NoHit)
        ELSE IF i % 4 = 2 THEN LogLine(CovOther, SelGeom(5, 5), NoHit)
        ELSE LogLine(CovLine(TRUE, 3, 1, 9), SelOther, NoHit)]

\* a dump with one tree more than the table holds, behind a skipped line and a
\* line of eleven terminal indices
RenderLongDump ==
    [i \in 1..(MAX_ALL_FSTS + 2) |->
        IF i = 1 THEN DumpLine(FALSE, <<Tok(7)>>)
        ELSE IF i = 2
        THEN DumpLine(FALSE, [j \in 1..(MAX_FST_TERMINALS + 1) |-> Tok(j + 10)])
        ELSE DumpLine(FALSE, <<Tok(i % TERMINAL_RANGE), Tok(1)>>)]

RenderInput(to, tf, lo, l, dop, d, h) ==
    [term_open |-> to, term_file |-> tf, log_open |-> lo, log |-> l,
     dump_open |-> dop, dump |-> d, html_ok |-> h]

RenderTermFiles ==
    {<<<<FTok(1, 1), FTok(2, 1), FTok(50, 0)>>, <<FTok(3, 1), FTok(25, 2), FTok(605, 1)>>>>,
     <<<<FTok(1, 1), FTok(2, 1), FTok(50, 0)>>, <<FTok(3, 1), FTok(25, 2), FTok(605, 1)>>,
       <<FTok(75, 2), FTok(5, 1), FTok(10, 0)>>>>,
     <<<<BadFTok>>>>}

RenderDumps ==
    {<<DumpLine(FALSE, <<Tok(0), Tok(1)>>), DumpLine(FALSE, <<Tok(4), Tok(1), Tok(0)>>)>>}

\* what the renderer may be given: small files in every combination of present
\* and absent, and files longer than every table
RenderInputs ==
    {RenderInput(TRUE, tf, TRUE, l, dop, IF dop THEN d ELSE <<>>, h) :
        tf \in RenderTermFiles,
        l \in UNION {[1..n -> RenderLogLines] : n \in 0..MaxRenderLines},
        dop \in BOOLEAN, d \in RenderDumps, h \in BOOLEAN}
    \cup {RenderInput(TRUE, tf, FALSE, <<>>, dop, IF dop THEN d ELSE <<>>, h) :
        tf \in RenderTermFiles, dop \in BOOLEAN, d \in RenderDumps, h \in BOOLEAN}
    \cup {RenderInput(FALSE, <<>>, lo, <<>>, TRUE, <<>>, TRUE) : lo \in BOOLEAN}
    \cup {RenderInput(TRUE, tf, TRUE, RenderLongLog, TRUE, RenderLongDump, TRUE) :
        tf \in TermLongFiles}

EmptyReport ==
    [created |-> FALSE, edges |-> <<>>, circles |-> <<>>, metrics |-> None,
     gap_row |-> NotShown, fst_rows |-> <<>>, closed |-> FALSE,
     reads |-> [terminals |-> {}, selected |-> {}, all |-> {}]]

RndIdle ==
    /\ rnd_in = RenderInput(FALSE, <<>>, FALSE, <<>>, FALSE, <<>>, FALSE)
    /\ rnd_pc = "idle" /\ num_selected_fsts = 0 /\ report = EmptyReport

RndInit ==
    /\ rnd_in \in RenderInputs
    /\ rnd_pc = "start" /\ num_selected_fsts = 0 /\ report = EmptyReport

\* the copy of lines 705-708 left out: the flags stay as line 686 makes them
UpdateCoverageZeroed(ts, cov) ==
    [i \in 1..Len(ts) |-> [ts[i] EXCEPT !.covered = 0, !.terminal_id = i - 1]]

\* lines 705-708: the coverage flags copied into the terminal table
UpdateCoverage(ts, cov) ==
    [i \in 1..Len(ts) |-> [ts[i] EXCEPT !.covered = cov[i - 1], !.terminal_id = i - 1]]

\* the scaled position of terminal term_id of the table
ScaledTerminal(ts, term_id) == scale_coordinates(ts[term_id + 1].x, ts[term_id + 1].y)

RECURSIVE Flatten(_)
Flatten(ss) == IF ss = <<>> THEN <<>> ELSE Head(ss) \o Flatten(Tail(ss))

\* lines 838 and 854: term_id >= 0 && term_id < num_terminals
InTable(t, n) == t >= 0 /\ t < n

\* every tree drawn as a chain of its terminals, junction or not
FstEdgesPairwise(f, ts) ==
    LET ids == f.terminal_ids
        n == Len(ts)
    IN Flatten([j \in 1..(Len(ids) - 1) |->
                   IF InTable(ids[j], n) /\ InTable(ids[j + 1], n)
                   THEN <<ScaledTerminal(ts, ids[j]) \o ScaledTerminal(ts, ids[j + 1])>>
                   ELSE <<>>])

\* lines 829-863: the <line> elements written for one selected tree; the
\* junction coordinates in the log are tenths
FstEdges(f, ts) ==
    LET ids == f.terminal_ids
        n == Len(ts)
    IN IF Len(f.steiner_points) > 0
       THEN LET s == scale_coordinates(Rat(f.steiner_points[1][1], 10),
                                       Rat(f.steiner_points[1][2], 10))
            IN Flatten([j \in 1..Len(ids) |->
                   IF InTable(ids[j], n) THEN <<s \o ScaledTerminal(ts, ids[j])>> ELSE <<>>])
       ELSE Flatten([j \in 1..(Len(ids) - 1) |->
                   IF InTable(ids[j], n) /\ InTable(ids[j + 1], n)
                   THEN <<ScaledTerminal(ts, ids[j]) \o ScaledTerminal(ts, ids[j + 1])>>
                   ELSE <<>>])

\* lines 828-863: the loop over the selected trees (no iteration when the
\* count is the sentinel -1)
DrawEdges(fs, count, ts) ==
    Flatten([i \in 1..count |-> FstEdges(fs[i], ts)])

\* the indices with which terminals[] is read for one tree when the tests of
\* lines 838 and 854 are left out
FstTerminalReadsUnguarded(f, n) == {f.terminal_ids[j] : j \in 1..Len(f.terminal_ids)}

\* lines 836-841 and 851-857: the indices with which terminals[] is read for
\* one selected tree
FstTerminalReads(f, n) ==
    LET ids == f.terminal_ids
    IN IF Len(f.steiner_points) > 0
       THEN {ids[j] : j \in {k \in 1..Len(ids) : InTable(ids[k], n)}}
       ELSE UNION {{ids[j], ids[j + 1]} :
                      j \in {k \in 1..(Len(ids) - 1) :
                                 InTable(ids[k], n) /\ InTable(ids[k + 1], n)}}

\* lines 829-889: the indices with which the drawing code reads terminals[]
\* (the trees, then the loop over the terminals) and selected_fsts[]
DrawReads(fs, count, n) ==
    [terminals |-> UNION {FstTerminalReads(fs[i], n) : i \in 1..count} \cup 0..(n - 1),
     selected |-> 0..(count - 1),
     all |-> {}]

\* lines 919-927 and 989-1036: the loops over terminals[] and all_fsts[]
TableReads(n, n_all) ==
    [terminals |-> 0..(n - 1), selected |-> {}, all |-> 0..(n_all - 1)]

MergeReads(a, b) ==
    [terminals |-> a.terminals \cup b.terminals, selected |-> a.selected \cup b.selected,
     all |-> a.all \cup b.all]

\* lines 866-889: one circle per terminal, solid when covered, dashed when not
DrawCircles(ts) ==
    [i \in 1..Len(ts) |->
        [at |-> scale_coordinates(ts[i].x, ts[i].y), label |-> i - 1,
         covered |-> ts[i].covered # 0]]

\* lines 918-934: the rows of the metrics table
Count(seq, P(_)) == Cardinality({i \in 1..Len(seq) : P(seq[i])})
IsCovered(t) == t.covered # 0
IsSelected(f) == f.selected # 0
Metrics(ts, fs, n_all) ==
    [selected |-> Count(SubSeq(fs, 1, n_all), IsSelected), total |-> n_all,
     terminals |-> Len(ts), covered |-> Count(ts, IsCovered),
     uncovered |-> Len(ts) - Count(ts, IsCovered)]

\* lines 1023-1036: the rows of the tree table
FstRows(fs, n_all) ==
    [i \in 1..n_all |->
        [fst_id |-> fs[i].fst_id, selected |-> fs[i].selected # 0,
         terminals |-> fs[i].terminal_ids]]

\* line 696: parse_terminals(terminals_file, terminals, 50)
RndCallTerminals ==
    /\ rnd_pc = "start"
    /\ term_file' = rnd_in.term_file /\ term_open' = rnd_in.term_open
    /\ term_pos' = 0 /\ term_table' = <<>> /\ term_ret' = None /\ term_pc' = "open"
    /\ rnd_pc' = "terminals"
    /\ UNCHANGED <<rnd_in, num_selected_fsts, report>>
    /\ UNCHANGED <<gap_vars, cov_vars, sel_vars, dump_vars, mrg_vars, scale_vars, main_vars>>

\* lines 697-700: no terminal, an error message and return
RndTerminalsFailed ==
    /\ rnd_pc = "terminals" /\ term_pc = "done" /\ term_ret[1] <= 0
    /\ rnd_pc' = "failed"
    /\ UNCHANGED <<rnd_in, num_selected_fsts, report>>
    /\ UNCHANGED not_rnd_vars

\* line 702: parse_solution_coverage(solution_file, coverage, 50), on the
\* array of line 686
RndCallCoverage ==
    /\ rnd_pc = "terminals" /\ term_pc = "done" /\ term_ret[1] > 0
    /\ cov_log' = CovView(rnd_in.log) /\ cov_open' = rnd_in.log_open /\ cov_pos' = 0
    /\ final_not_covered' = [i \in 0..(MAX_TERMINALS - 1) |-> 0]
    /\ coverage' = [i \in 0..(MAX_TERMINALS - 1) |-> 0]
    /\ cov_pc' = "start"
    /\ rnd_pc' = "coverage"
    /\ UNCHANGED <<rnd_in, num_selected_fsts, report>>
    /\ UNCHANGED <<gap_vars, sel_vars, dump_vars, mrg_vars, term_vars, scale_vars, main_vars>>

\* lines 705-708
RndUpdateCoverage ==
    /\ rnd_pc = "coverage" /\ cov_pc \in {"done", "failed"}
    /\ term_table' = UpdateCoverage(term_table, coverage)
    /\ rnd_pc' = "html"
    /\ UNCHANGED <<term_file, term_open, term_pos, term_ret, term_pc>>
    /\ UNCHANGED <<rnd_in, num_selected_fsts, report>>
    /\ UNCHANGED <<gap_vars, cov_vars, sel_vars, dump_vars, mrg_vars, scale_vars, main_vars>>

\* lines 715-719: the report cannot be created, an error message and return
RndHtmlFailed ==
    /\ rnd_pc = "html" /\ ~rnd_in.html_ok
    /\ rnd_pc' = "failed"
    /\ UNCHANGED <<rnd_in, num_selected_fsts, report>>
    /\ UNCHANGED not_rnd_vars

\* lines 715 and 722-776: the report is created and its head written; then
\* the dump and the selected ids are read
RndHtmlCreated ==
    /\ rnd_pc = "html" /\ rnd_in.html_ok
    /\ report' = [report EXCEPT !.created = TRUE]
    /\ mrg_dump' = rnd_in.dump /\ mrg_dump_open' = rnd_in.dump_open
    /\ mrg_log' = SelView(rnd_in.log) /\ mrg_log_open' = rnd_in.log_open
    /\ all_fsts' = <<>> /\ num_all_fsts' = 0 /\ selected_fst_ids' = <<>>
    /\ num_selected_ids' = 0 /\ mrg_pc' = "dump"
    /\ rnd_pc' = "merge"
    /\ UNCHANGED <<rnd_in, num_selected_fsts>>
    /\ UNCHANGED <<gap_vars, cov_vars, sel_vars, dump_vars, term_vars, scale_vars, main_vars>>

\* line 811 with lines 1165-1168: the log cannot be opened, the count is -1
RndSolutionMissing ==
    /\ rnd_pc = "merge" /\ mrg_pc = "done" /\ ~rnd_in.log_open
    /\ num_selected_fsts' = -1
    /\ rnd_pc' = "draw"
    /\ UNCHANGED <<rnd_in, report>>
    /\ UNCHANGED not_rnd_vars

\* line 811: parse_fsts_from_solution(solution_file, selected_fsts, 50)
RndCallSolution ==
    /\ rnd_pc = "merge" /\ mrg_pc = "done" /\ rnd_in.log_open
    /\ sel_log' = SelView(rnd_in.log) /\ sel_pos' = 0 /\ current_pos' = 0
    /\ fsts' = <<>> /\ fst_count' = 0 /\ sel_pc' = "outer"
    /\ rnd_pc' = "solution"
    /\ UNCHANGED <<rnd_in, num_selected_fsts, report>>
    /\ UNCHANGED <<gap_vars, cov_vars, dump_vars, mrg_vars, term_vars, scale_vars, main_vars>>

RndSolutionParsed ==
    /\ rnd_pc = "solution" /\ sel_pc = "done"
    /\ num_selected_fsts' = fst_count
    /\ rnd_pc' = "draw"
    /\ UNCHANGED <<rnd_in, report>>
    /\ UNCHANGED not_rnd_vars

\* lines 828-889: the selected trees, then the terminals
RndDraw ==
    /\ rnd_pc = "draw"
    /\ report' = [report EXCEPT !.edges = DrawEdges(fsts, num_selected_fsts, term_table),
                                !.circles = DrawCircles(term_table),
                                !.reads = DrawReads(fsts, num_selected_fsts, Len(term_table))]
    /\ rnd_pc' = "metrics"
    /\ UNCHANGED <<rnd_in, num_selected_fsts>>
    /\ UNCHANGED not_rnd_vars

\* lines 918-939: the metrics rows, then parse_final_mip_gap(solution_file)
RndMetrics ==
    /\ rnd_pc = "metrics"
    /\ report' = [report EXCEPT !.metrics = Metrics(term_table, all_fsts, num_all_fsts),
                                !.reads = MergeReads(@, TableReads(Len(term_table), num_all_fsts))]
    /\ gap_log' = GapView(rnd_in.log) /\ gap_open' = rnd_in.log_open /\ gap_pos' = 0
    /\ regs' = InitRegs /\ gap_pc' = "start" /\ final_gap' = None
    /\ console_gap' = NotShown /\ report_gap' = NotShown
    /\ rnd_pc' = "gap"
    /\ UNCHANGED <<rnd_in, num_selected_fsts>>
    /\ UNCHANGED <<cov_vars, sel_vars, dump_vars, mrg_vars, term_vars, scale_vars, main_vars>>

\* lines 945-1063: after the gap row, the rest of the report and fclose
RndFinish ==
    /\ rnd_pc = "gap" /\ report_gap # NotShown
    /\ report' = [report EXCEPT !.gap_row = report_gap,
                                !.fst_rows = FstRows(all_fsts, num_all_fsts),
                                !.reads = MergeReads(@, TableReads(Len(term_table), num_all_fsts)),
                                !.closed = TRUE]
    /\ rnd_pc' = "done"
    /\ UNCHANGED <<rnd_in, num_selected_fsts>>
    /\ UNCHANGED not_rnd_vars

\* ====================================================================
\* specifications, one per component
\* ====================================================================
GapSpecInit == GapInit /\ CovIdle /\ SelIdle /\ DumpIdle /\ MrgIdle /\ TermIdle /\ ScaleIdle /\ MainIdle /\ RndIdle
GapNext == GapOpenFail \/ GapOpen \/ GapReadLine \/ GapReturn \/ MainShowGap \/ RenderGapRow
SpecGap == GapSpecInit /\ [][GapNext]_vars

CovSpecInit == GapIdle /\ CovInit /\ SelIdle /\ DumpIdle /\ MrgIdle /\ TermIdle /\ ScaleIdle /\ MainIdle /\ RndIdle
CovNext == CovStart \/ CovReadLine \/ CovFinish
SpecCov == CovSpecInit /\ [][CovNext]_vars

SelSpecInit == GapIdle /\ CovIdle /\ SelInit /\ DumpIdle /\ MrgIdle /\ TermIdle /\ ScaleIdle /\ MainIdle /\ RndIdle
SelNext == SelOuterRead \/ SelInnerRead \/ SelInnerEof \/ SelReturn
SpecSel == SelSpecInit /\ [][SelNext]_vars
\* the parser is one sequential function: it always takes its next step
SpecSelLive == SelSpecInit /\ [][SelNext]_vars /\ WF_vars(SelNext)

DumpSpecInit == GapIdle /\ CovIdle /\ SelIdle /\ DumpInit /\ MrgIdle /\ TermIdle /\ ScaleIdle /\ MainIdle /\ RndIdle
DumpNext == DumpReadLine \/ DumpReturn
SpecDump == DumpSpecInit /\ [][DumpNext]_vars

MrgSpecInit == GapIdle /\ CovIdle /\ SelIdle /\ DumpIdle /\ MrgInit /\ TermIdle /\ ScaleIdle /\ MainIdle /\ RndIdle
MrgNext == MrgParseDump \/ MrgParseIds \/ MrgMark
SpecMerge == MrgSpecInit /\ [][MrgNext]_vars

TermSpecInit == GapIdle /\ CovIdle /\ SelIdle /\ DumpIdle /\ MrgIdle /\ TermInit /\ ScaleIdle /\ MainIdle /\ RndIdle
TermNext == TermOpenFail \/ TermOpen \/ TermReadTriple \/ TermReturn
SpecTerm == TermSpecInit /\ [][TermNext]_vars

ScaleSpecInit == GapIdle /\ CovIdle /\ SelIdle /\ DumpIdle /\ MrgIdle /\ TermIdle /\ ScaleInit /\ MainIdle /\ RndIdle
ScaleNext == ScaleCall
SpecScale == ScaleSpecInit /\ [][ScaleNext]_vars

MainSpecInit ==
    GapIdle /\ CovIdle /\ SelIdle /\ DumpIdle /\ MrgIdle /\ TermIdle /\ ScaleIdle /\ MainInit
    /\ RndIdle
MainNext ==
    \/ MainGetopt \/ MainVizArgsMissing \/ MainVizStart \/ MainFullArgsInvalid
    \/ MainCreateDirectory \/ MainGenerateTerminals \/ MainGenerateFsts
    \/ MainGenerateFstDump \/ MainSolveSmt \/ MainParseGap \/ MainRender \/ MainFinish
SpecMain == MainSpecInit /\ [][MainNext]_vars

RndSpecInit ==
    GapIdle /\ CovIdle /\ SelIdle /\ DumpIdle /\ MrgIdle /\ TermIdle /\ ScaleIdle /\ MainIdle
    /\ RndInit
RndNext ==
    \/ RndCallTerminals \/ TermOpenFail \/ TermOpen \/ TermReadTriple \/ TermReturn
    \/ RndTerminalsFailed \/ RndCallCoverage \/ CovStart \/ CovReadLine \/ CovFinish
    \/ RndUpdateCoverage \/ RndHtmlFailed \/ RndHtmlCreated
    \/ MrgParseDump \/ MrgParseIds \/ MrgMark
    \/ RndSolutionMissing \/ RndCallSolution
    \/ SelOuterRead \/ SelInnerRead \/ SelInnerEof \/ SelReturn \/ RndSolutionParsed
    \/ RndDraw \/ RndMetrics
    \/ GapOpenFail \/ GapOpen \/ GapReadLine \/ GapReturn \/ RenderGapRow \/ RndFinish
SpecRender == RndSpecInit /\ [][RndNext]_vars


\* ====================================================================
\* the convergence-gap extractor: what the log says, read independently
\* ====================================================================
\* |a - b| / |b| for integers, b # 0
IntRelGap(a, b) == Rat(Abs(a - b), Abs(b))

IntMin(a, b) == IF a < b THEN a ELSE b
IntMax(a, b) == IF a > b THEN a ELSE b

\* the gap values the matchers 1, 2, 3, 5 compute on one line, in that order
ComputedOnLine(line) ==
    (IF line.m1 # None /\ line.m1[2] # 0
     THEN <<IntRelGap(line.m1[1], line.m1[2])>> ELSE <<>>)
    \o (IF line.m2 # None THEN <<Rat(line.m2[1], 100)>> ELSE <<>>)
    \o (IF line.m3 # None THEN <<Rat(line.m3[1], 100)>> ELSE <<>>)
    \o (IF line.m5 # None /\ IntMin(line.m5[1], line.m5[2]) # 0
        THEN <<IntRelGap(IntMax(line.m5[1], line.m5[2]), IntMin(line.m5[1], line.m5[2]))>>
        ELSE <<>>)

\* every gap value computed during the scan of these lines, in document order
RECURSIVE AllComputed(_)
AllComputed(lines) ==
    IF lines = <<>> THEN <<>> ELSE ComputedOnLine(Head(lines)) \o AllComputed(Tail(lines))

LastOf(seq) == seq[Len(seq)]

\* the indices of the lines with a 'New best' value, with a branch pair
NewBestAt(lines) == {i \in 1..Len(lines) : lines[i].m4 # None}
BranchAt(lines) == {i \in 1..Len(lines) : lines[i].m5 # None}
MaxOf(S) == CHOOSE i \in S : \A j \in S : j <= i

\* a line on which a 'Best integer' of 0 or a smaller Z of 0 is met and no
\* matcher computes a gap
ZeroGuardedLine(line) ==
    /\ ComputedOnLine(line) = <<>>
    /\ \/ line.m1 # None /\ line.m1[2] = 0
       \/ line.m5 # None /\ IntMin(line.m5[1], line.m5[2]) = 0

GapReturned == gap_pc = "returned"

\* C5: when the log cannot be opened, or none of its lines matches any of the
\* five patterns, the value returned fails the callers' test >= 0: the console
\* says the gap could not be parsed and the report row says 'Not available';
\* neither ever shows a number.
C5_AbsentGapIsUnavailable ==
    (GapReturned /\ (~gap_open \/ \A i \in 1..Len(gap_log) : gap_log[i] = NoHit))
        => /\ ~GE0(final_gap)
           /\ console_gap.kind \in {"none", "could_not_parse"}
           /\ report_gap.kind \in {"none", "not_available"}

C5_Witness ==
    /\ GapReturned /\ gap_open /\ Len(gap_log) >= 2
    /\ \A i \in 1..Len(gap_log) : gap_log[i] = NoHit
    /\ console_gap.kind = "could_not_parse" /\ report_gap.kind = "not_available"

\* C6: during the scan the gap register holds the value computed by the last
\* computing matcher read so far (lines in document order, matchers 1, 2, 3, 5
\* in that order within a line), and when at least one matcher computed a value
\* that last value is what is returned; 'New best' lines contribute nothing.
C6_LastComputedWins ==
    /\ (gap_pc = "scan" /\ AllComputed(SubSeq(gap_log, 1, gap_pos)) # <<>>)
          => regs.gap = LastOf(AllComputed(SubSeq(gap_log, 1, gap_pos)))
    /\ (GapReturned /\ gap_open /\ AllComputed(gap_log) # <<>>)
          => final_gap = LastOf(AllComputed(gap_log))

C6_Witness ==
    /\ GapReturned /\ gap_open
    /\ \E i, j \in 1..Len(gap_log) :
          /\ i < j /\ j = Len(gap_log)
          /\ Len(ComputedOnLine(gap_log[i])) = 2
          /\ gap_log[j].m4 # None /\ ComputedOnLine(gap_log[j]) = <<>>
          /\ \E k \in 1..(i - 1) : /\ ComputedOnLine(gap_log[k]) # <<>>
                                   /\ LastOf(ComputedOnLine(gap_log[k])) # final_gap
    /\ final_gap = LastOf(AllComputed(gap_log))

\* C7: the value returned is the sentinel of a log that cannot be opened (-1),
\* the unavailable value NaN, or a non-negative real.
C7_GapNeverNegative ==
    GapReturned => (final_gap = Real(-1) /\ ~gap_open) \/ isnan(final_gap) \/ GE0(final_gap)

\* C8: a line on which Best integer is 0 or the smaller Z is 0, and on which no
\* matcher computes a gap, leaves the gap register as it was; and neither the
\* register nor the value returned is ever the result of a division by zero
\* (an infinity, or the NaN of 0/0 in place of a value computed earlier).
C8_ZeroDenominatorGuarded ==
    /\ [][(gap_pc = "scan" /\ gap_pos' = gap_pos + 1 /\ ZeroGuardedLine(gap_log[gap_pos + 1]))
             => regs'.gap = regs.gap]_vars
    /\ [](regs.gap # Inf /\ final_gap # Inf)
    /\ []((GapReturned /\ gap_open /\ AllComputed(gap_log) # <<>>) => ~isnan(final_gap))

C8_Witness ==
    /\ GapReturned /\ Len(gap_log) = 3
    /\ ComputedOnLine(gap_log[1]) # <<>>
    /\ ZeroGuardedLine(gap_log[2]) /\ gap_log[2].m1 # None /\ gap_log[2].m5 = None
    /\ ZeroGuardedLine(gap_log[3]) /\ gap_log[3].m5 # None /\ gap_log[3].m1 = None
    /\ final_gap = LastOf(ComputedOnLine(gap_log[1]))

\* C9: the value returned is derived from the latest 'New best' value b and the
\* larger value m of the latest branch pair, as |m - b| / |b|, exactly when no
\* matcher computed a gap and both were captured; it is then unavailable when
\* b = 0.  Otherwise it is the last computed value, or unavailable when there
\* is none: the fallback never replaces a computed gap.
C9_FallbackExact ==
    (GapReturned /\ gap_open) =>
        LET comp == AllComputed(gap_log)
            nbs == NewBestAt(gap_log)
            brs == BranchAt(gap_log)
        IN IF comp = <<>> /\ nbs # {} /\ brs # {}
           THEN LET b == gap_log[MaxOf(nbs)].m4[1]
                    pair == gap_log[MaxOf(brs)].m5
                    m == IntMax(pair[1], pair[2])
                IN final_gap = IF b = 0 THEN NaN ELSE IntRelGap(m, b)
           ELSE final_gap = IF comp = <<>> THEN NaN ELSE LastOf(comp)

C9_Witness ==
    /\ GapReturned /\ gap_open
    /\ AllComputed(gap_log) = <<>>
    /\ Cardinality(NewBestAt(gap_log)) >= 2 /\ BranchAt(gap_log) # {}
    /\ gap_log[MaxOf(NewBestAt(gap_log))].m4[1] # 0
    /\ ~isnan(final_gap)

\* ====================================================================
\* the coverage extractor
\* ====================================================================
MinOf(S) == CHOOSE i \in S : \A j \in S : i <= j

\* the lines that hold the text of an assignment to not_covered[i]
AssignmentTextAt(lines, i) == {k \in 1..Len(lines) : lines[k].pre >= 0 /\ lines[k].idx = i}

\* those among them that hold both "not_covered[" and "] =" and have exactly
\* three whitespace-separated tokens in front of the assignment
PrefixedAssignmentAt(lines, i) ==
    {k \in AssignmentTextAt(lines, i) : lines[k].marker /\ lines[k].pre = 3}

CovTerminals == 0..(MAX_TERMINALS - 1)

\* C4 as stated: terminal i is reported uncovered iff the last line holding an
\* assignment not_covered[i] = v, whatever precedes it on the line, has v >= 0.5.
C4_AnyAssignmentCounts ==
    cov_pc = "done" =>
        \A i \in CovTerminals :
            coverage[i] = 0 <=>
                /\ AssignmentTextAt(cov_log, i) # {}
                /\ cov_log[MaxOf(AssignmentTextAt(cov_log, i))].val >= HalfTenths

\* C4 amended: terminal i is reported uncovered iff the last line that holds
\* not_covered[i] = v behind exactly three whitespace-separated tokens (the
\* "% DEBUG LP_VARS:" prefix) has v >= 0.5; a later such line replaces an
\* earlier one, and assignments behind any other prefix are not read.
C4_LastPrefixedAssignmentWins ==
    cov_pc = "done" =>
        \A i \in CovTerminals :
            coverage[i] = 0 <=>
                /\ PrefixedAssignmentAt(cov_log, i) # {}
                /\ cov_log[MaxOf(PrefixedAssignmentAt(cov_log, i))].val >= HalfTenths

C4_Witness ==
    /\ cov_pc = "done" /\ Len(cov_log) = 3
    /\ PrefixedAssignmentAt(cov_log, 0) = {1, 2}
    /\ cov_log[1].val >= HalfTenths /\ cov_log[2].val < HalfTenths
    /\ PrefixedAssignmentAt(cov_log, 1) = {3} /\ cov_log[3].val >= HalfTenths
    /\ coverage[0] = 1 /\ coverage[1] = 0

\* ====================================================================
\* the selected-tree parser
\* ====================================================================
\* the positions of the lines the outer scan accepts as tree headers
HeaderAt(lines) == {i \in 1..Len(lines) : AcceptsHeader(lines[i])}

\* the position of the k-th of them
KthHeader(lines, k) ==
    CHOOSE i \in HeaderAt(lines) : Cardinality({j \in HeaderAt(lines) : j <= i}) = k

IntMin2(a, b) == IF a < b THEN a ELSE b

\* C1: the trees returned are exactly the accepted header lines, one tree per
\* line, in document order, cut at the capacity: the k-th tree carries the id
\* and the terminals of the k-th accepted header line.
C1_EveryHeaderOneTree ==
    sel_pc = "done" =>
        /\ fst_count = IntMin2(Cardinality(HeaderAt(sel_log)), MAX_SELECTED)
        /\ Len(fsts) = fst_count
        /\ \A k \in 1..fst_count :
              /\ fsts[k].fst_id = sel_log[KthHeader(sel_log, k)].hdr[1]
              /\ fsts[k].terminal_ids =
                    SubSeq(sel_log[KthHeader(sel_log, k)].terms, 1,
                           IntMin2(Len(sel_log[KthHeader(sel_log, k)].terms), MAX_FST_TERMINALS))

\* a header directly after a header, and a header directly after the geometry
\* line of the previous header
C1_Witness ==
    /\ sel_pc = "done" /\ fst_count = 3
    /\ \E i \in 1..Len(sel_log) - 1 :
          AcceptsHeader(sel_log[i]) /\ AcceptsHeader(sel_log[i + 1])
    /\ \E i \in 1..Len(sel_log) - 2 :
          /\ AcceptsHeader(sel_log[i]) /\ sel_log[i + 1].geom # None
          /\ AcceptsHeader(sel_log[i + 2])

\* the line ends a tree's block: it holds "% fs" or "EndPlot" and is not itself
\* a geometry line
EndsBlock(line) == line.stop /\ line.geom = None

\* the geometry lines of the block of the header at position p
BlockGeometry(lines, p) ==
    LET ends == {j \in (p + 1)..Len(lines) : EndsBlock(lines[j])}
        last == IF ends = {} THEN Len(lines) ELSE MinOf(ends) - 1
    IN {j \in (p + 1)..last : lines[j].geom # None}

\* C2: the junction of every returned tree is the (x, y) of the first geometry
\* line between its header and the next "% fs" or EndPlot line; a tree with no
\* geometry line there has no junction point.
C2_JunctionIsFirstGeometry ==
    sel_pc = "done" =>
        \A k \in 1..fst_count :
            LET geoms == BlockGeometry(sel_log, KthHeader(sel_log, k))
            IN fsts[k].steiner_points =
                  IF geoms = {} THEN <<>> ELSE <<sel_log[MinOf(geoms)].geom>>

\* a tree with two different geometry lines in its block, followed by a tree
\* with none
C2_Witness ==
    /\ sel_pc = "done" /\ fst_count = 2
    /\ LET geoms == BlockGeometry(sel_log, KthHeader(sel_log, 1))
       IN /\ Cardinality(geoms) = 2
          /\ sel_log[MinOf(geoms)].geom # sel_log[MaxOf(geoms)].geom
          /\ fsts[1].steiner_points = <<sel_log[MinOf(geoms)].geom>>
    /\ fsts[2].steiner_points = <<>>

\* ====================================================================
\* the selection merge of the renderer
\* ====================================================================
FlaggedIds == {all_fsts[i].fst_id : i \in {j \in 1..Len(all_fsts) : all_fsts[j].selected = 1}}
EmittedIds == {selected_fst_ids[j] : j \in 1..num_selected_ids}
UniverseIds == {all_fsts[i].fst_id : i \in 1..num_all_fsts}

\* C3 as stated: the flagged universe ids are exactly the emitted ids.
C3_FlaggedEqualsEmitted == mrg_pc = "done" => FlaggedIds = EmittedIds

\* C3 amended: the flagged universe ids are exactly the emitted ids that are
\* ids of universe trees; an emitted id that no universe tree carries is
\* flagged nowhere.
C3_FlaggedIsEmittedInUniverse ==
    mrg_pc = "done" => FlaggedIds = EmittedIds \cap UniverseIds

C3_Witness ==
    /\ mrg_pc = "done" /\ num_all_fsts = 2
    /\ FlaggedIds # {} /\ FlaggedIds # UniverseIds
    /\ EmittedIds \ UniverseIds # {}

\* ====================================================================
\* the tree dump parser
\* ====================================================================
ValidToken(t) == t.num /\ t.val >= 0 /\ t.val < TERMINAL_RANGE

\* the valid indices of a dump line, at most ten
ValidIndices(line) ==
    LET v == SelectSeq(line.tokens, ValidToken)
    IN [i \in 1..IntMin2(Len(v), MAX_FST_TERMINALS) |-> v[i].val]

\* a line that yields a tree
DumpAccepted(line) == ~line.debug /\ Len(ValidIndices(line)) >= 2

AcceptedAt(lines) == {i \in 1..Len(lines) : DumpAccepted(lines[i])}

KthAccepted(lines, k) ==
    CHOOSE i \in AcceptedAt(lines) : Cardinality({j \in AcceptedAt(lines) : j <= i}) = k

\* C10: the trees stored carry the ids 0, 1, ... in order at every moment of
\* the scan, and on return the k-th tree (id k - 1) holds the indices of the
\* k-th accepted line: skipped lines consume no id.
C10_DumpIdsAreParseOrder ==
    /\ \A k \in 1..Len(dump_fsts) : dump_fsts[k].fst_id = k - 1
    /\ dump_pc = "done" =>
          /\ Len(dump_fsts) = IntMin2(Cardinality(AcceptedAt(dump_log)), MAX_ALL_FSTS)
          /\ \A k \in 1..Len(dump_fsts) :
                dump_fsts[k].terminal_ids = ValidIndices(dump_log[KthAccepted(dump_log, k)])

\* an accepted line, a skipped line, an accepted line
C10_Witness ==
    /\ dump_pc = "done" /\ Len(dump_log) = 3
    /\ AcceptedAt(dump_log) = {1, 3}
    /\ dump_log[2] # DumpEmpty /\ ~dump_log[2].debug
    /\ Len(dump_fsts) = 2 /\ dump_fsts[2].fst_id = 1

\* a token that is a terminal index: a decimal integer, non-negative and
\* inside the terminal-count range
IndexToken(t) == t.kind = "int" /\ t.val >= 0 /\ t.val < TERMINAL_RANGE

\* the terminal indices written on a dump line, in their order, at most ten
LineIndices(line) ==
    LET v == SelectSeq(line.tokens, IndexToken)
    IN [i \in 1..IntMin2(Len(v), MAX_FST_TERMINALS) |-> v[i].val]

\* C11: every tree stored has 2 to 10 terminal indices, each in the terminal
\* range; they are the terminal indices written on its line (integer tokens in
\* the range), in their order, every other token being dropped; and its
\* junction flag is 1 exactly when it has more than 2 terminals.
C11_TerminalsAreLineIndices ==
    dump_pc = "done" =>
        \A k \in 1..Len(dump_fsts) :
            LET t == dump_fsts[k].terminal_ids
            IN /\ Len(t) >= 2 /\ Len(t) <= MAX_FST_TERMINALS
               /\ \A j \in 1..Len(t) : t[j] >= 0 /\ t[j] < TERMINAL_RANGE
               /\ t = LineIndices(dump_log[KthAccepted(dump_log, k)])
               /\ dump_fsts[k].num_steiner_points = 1 <=> Len(t) > 2

\* ====================================================================
\* the terminal-list parser
\* ====================================================================
\* a well-formed line: exactly the three fields x, y and battery
WellFormedTerminal(line) == Len(line) = 3 /\ \A j \in 1..3 : line[j].num

\* the value of a decimal text, digit by digit
DecimalValue(t) == Rat(t.mant, Pow10(t.decimals))

\* the terminal a well-formed line describes when it is the i-th entity
TerminalOf(line, i) ==
    [x |-> DecimalValue(line[1]), y |-> DecimalValue(line[2]),
     battery |-> DecimalValue(line[3]), covered |-> 1, terminal_id |-> i - 1]

WellFormedAt(lines) == {i \in 1..Len(lines) : WellFormedTerminal(lines[i])}

KthWellFormed(lines, k) ==
    CHOOSE i \in WellFormedAt(lines) : Cardinality({j \in WellFormedAt(lines) : j <= i}) = k

\* C12: for a terminal file of N well-formed lines the parser returns
\* min(N, 50), and entry i holds the triple of line i, the id i (from 0) and
\* the covered flag 1.
C12_WellFormedFileRecovered ==
    (term_pc = "done" /\ term_open /\ WellFormedAt(term_file) = 1..Len(term_file)) =>
        /\ term_ret = <<IntMin2(Len(term_file), MAX_TERMINAL_TABLE)>>
        /\ Len(term_table) = term_ret[1]
        /\ \A i \in 1..Len(term_table) : term_table[i] = TerminalOf(term_file[i], i)

\* two different well-formed lines, both recovered
C12_Witness ==
    /\ term_pc = "done" /\ Len(term_file) = 2
    /\ WellFormedAt(term_file) = {1, 2} /\ term_file[1] # term_file[2]
    /\ term_ret = <<2>> /\ term_table[2].terminal_id = 1
    /\ term_table[2].x # term_table[1].x

\* C13: a malformed line never aborts the parse: the terminals returned are
\* the well-formed lines of the file, in order, up to the capacity, whatever
\* other lines stand between them.
C13_MalformedLineSkipped ==
    (term_pc = "done" /\ term_open) =>
        /\ Len(term_table) = IntMin2(Cardinality(WellFormedAt(term_file)), MAX_TERMINAL_TABLE)
        /\ \A k \in 1..Len(term_table) :
              term_table[k] = TerminalOf(term_file[KthWellFormed(term_file, k)], k)

\* ====================================================================
\* the coverage extractor: frame
\* ====================================================================
\* C20: reading a line changes the stored value of no terminal other than the
\* one the line names, and of none at all when the index is below 0 or not
\* below the bound; once the extractor has returned, with or without a log it
\* could open, every terminal that no line of the log names is covered.
C20_CoverageFrame ==
    /\ [][(cov_pc = "scan" /\ cov_pos' = cov_pos + 1) =>
            \A i \in CovTerminals :
                i # cov_log[cov_pos + 1].idx => final_not_covered'[i] = final_not_covered[i]]_vars
    /\ [](cov_pc \in {"done", "failed"} =>
            \A i \in CovTerminals : AssignmentTextAt(cov_log, i) = {} => coverage[i] = 1)

\* a log that names index 50 and index 0, both with 0.9: terminal 0 is
\* uncovered, terminal 49 and terminal 1 are covered
C20_Witness ==
    /\ cov_pc = "done"
    /\ \E k \in 1..Len(cov_log) : cov_log[k] = CovLine(TRUE, 3, MAX_TERMINALS, 9)
    /\ \E k \in 1..Len(cov_log) : cov_log[k] = CovLine(TRUE, 3, 0, 9)
    /\ coverage[0] = 0 /\ coverage[1] = 1 /\ coverage[MAX_TERMINALS - 1] = 1

\* ====================================================================
\* scale_coordinates: order and range
\* ====================================================================
BothScaled == sc_pc = 2

\* C18 as stated: a larger x scales to a strictly larger scaled x, a larger y
\* to a strictly smaller scaled y, inside [50, 750] and [50, 550].
C18_StrictlyMonotonic ==
    BothScaled =>
        /\ FLess(sc_in[1][1], sc_in[2][1]) => sc_out[1][1] < sc_out[2][1]
        /\ FLess(sc_in[1][2], sc_in[2][2]) => sc_out[1][2] > sc_out[2][2]
        /\ \A k \in 1..2 : /\ sc_out[k][1] >= margin /\ sc_out[k][1] <= width - margin
                            /\ sc_out[k][2] >= margin /\ sc_out[k][2] <= height - margin

\* C18 amended: a larger x never scales to a smaller scaled x and a larger y
\* never to a larger scaled y (two inputs inside one pixel scale to the same
\* integer); 0 and 1 scale to the two ends, and every result lies inside
\* [50, 750] and [50, 550].
C18_MonotonicInRange ==
    BothScaled =>
        /\ FLess(sc_in[1][1], sc_in[2][1]) => sc_out[1][1] <= sc_out[2][1]
        /\ FLess(sc_in[1][2], sc_in[2][2]) => sc_out[1][2] >= sc_out[2][2]
        /\ \A k \in 1..2 :
              /\ sc_out[k][1] >= margin /\ sc_out[k][1] <= width - margin
              /\ sc_out[k][2] >= margin /\ sc_out[k][2] <= height - margin
              /\ sc_in[k][1] = Real(0) => sc_out[k][1] = margin
              /\ sc_in[k][1] = Real(1) => sc_out[k][1] = width - margin
              /\ sc_in[k][2] = Real(0) => sc_out[k][2] = height - margin
              /\ sc_in[k][2] = Real(1) => sc_out[k][2] = margin

\* x1 < x2 with the same scaled x, y1 < y2 with a smaller scaled y
C18_Witness ==
    /\ BothScaled
    /\ FLess(sc_in[1][1], sc_in[2][1]) /\ sc_out[1][1] = sc_out[2][1]
    /\ FLess(sc_in[1][2], sc_in[2][2]) /\ sc_out[1][2] > sc_out[2][2]

\* ====================================================================
\* main: exit status and side effects
\* ====================================================================
InTrace(e) == \E k \in 1..Len(main_trace) : main_trace[k] = e

Exited == main_pc = "exited"

\* C15: when the renderer could not read a terminal from the terminal file,
\* or could not create the report file, the program ends with a non-zero
\* status and an error message, never with the message of success, and in
\* the terminal-file case without a report.
C15_RenderFailureIsFatal ==
    (Exited /\ (InTrace("err_parse_terminals") \/ InTrace("err_html"))) =>
        /\ exit_status # <<0>>
        /\ ~InTrace("success")
        /\ InTrace("err_parse_terminals") => ~InTrace("report")

\* C16: in full-simulation mode, once the tree-generation tool has been run,
\* the dump step, the solver and the report renderer are all reached before
\* the program ends, whatever the exit codes of the tools.
C16_ToolFailureNotFatal ==
    (Exited /\ InTrace("run_efst")) =>
        InTrace("run_dumpfst") /\ InTrace("run_bb") /\ InTrace("render")

\* what a command line asks for, read off its options: the argument of the
\* last option with this letter, 0 when there is none
LastArg(args, letter) ==
    LET at == {k \in 1..Len(args) : args[k].opt = letter}
    IN IF at = {} THEN 0 ELSE args[MaxOf(at)].arg

\* the first -h or unknown option, 0 when there is none
FirstStop(args) ==
    LET at == {k \in 1..Len(args) : args[k].opt \in {"h", "?"}}
    IN IF at = {} THEN 0 ELSE MinOf(at)

VizRequested(args) == \E k \in 1..Len(args) : args[k].opt \in {"t", "f", "r", "w"}

\* an invalid command line: an unknown option (with no -h in front of it); or,
\* with neither -h nor an unknown option, visualization mode with one of the
\* four paths missing, or full-simulation mode with a terminal count or a
\* budget that is missing or not positive
InvalidCommand(args) ==
    IF FirstStop(args) # 0 THEN args[FirstStop(args)].opt = "?"
    ELSE IF VizRequested(args)
         THEN \E l \in {"t", "f", "r", "w"} : LastArg(args, l) = 0
         ELSE LastArg(args, "n") <= 0 \/ LastArg(args, "b") <= 0

SideEffects ==
    {"mkdir", "write_terminals", "run_efst", "run_dumpfst", "run_bb", "run_python",
     "render", "report"}

RenderReturned == rnd_pc \in {"done", "failed"}

\* the terminal file opens and starts with a well-formed line
TerminalsParse ==
    /\ rnd_in.term_open /\ Len(rnd_in.term_file) > 0
    /\ WellFormedTerminal(rnd_in.term_file[1])

\* every part of the report is written and the file closed
ReportComplete ==
    /\ rnd_pc = "done" /\ report.created /\ report.closed
    /\ report.metrics # None /\ report.gap_row # NotShown
    /\ Len(report.circles) = term_ret[1] /\ term_ret[1] > 0

HasId(line) == line.hdr # None

FirstTen(seq) == SubSeq(seq, 1, IntMin2(Len(seq), MAX_FST_TERMINALS))

\* the lines of the three files that describe an entity, in file order
IdHeaders == SelectSeq(SelView(rnd_in.log), HasId)
TreeHeaders == SelectSeq(SelView(rnd_in.log), AcceptsHeader)
DumpTrees == SelectSeq(rnd_in.dump, DumpAccepted)

\* C19: at every moment of a rendering no table holds more than its size (50
\* terminals, 100 dump trees, 50 selected trees, 50 selected ids, 10 indices
\* per tree), what is kept is the first entities of the file in file order,
\* and the renderer fails for no other reason than an unusable terminal file
\* or report file.
C19_TablesNeverOverflow ==
    /\ Len(term_table) <= MAX_TERMINAL_TABLE
    /\ term_ret # None => term_ret[1] <= MAX_TERMINAL_TABLE
    /\ Len(all_fsts) <= MAX_ALL_FSTS /\ num_all_fsts <= MAX_ALL_FSTS
    /\ Len(fsts) <= MAX_SELECTED /\ fst_count <= MAX_SELECTED
    /\ num_selected_fsts <= MAX_SELECTED
    /\ Len(selected_fst_ids) <= MAX_SELECTED /\ num_selected_ids <= MAX_SELECTED
    /\ \A k \in 1..Len(all_fsts) : Len(all_fsts[k].terminal_ids) <= MAX_FST_TERMINALS
    /\ \A k \in 1..Len(fsts) : Len(fsts[k].terminal_ids) <= MAX_FST_TERMINALS
    /\ (term_pc = "done" /\ rnd_in.term_open
            /\ \A i \in 1..Len(rnd_in.term_file) : WellFormedTerminal(rnd_in.term_file[i])) =>
          /\ term_ret[1] = IntMin2(Len(rnd_in.term_file), MAX_TERMINAL_TABLE)
          /\ \A k \in 1..Len(term_table) :
                /\ term_table[k].x = DecimalValue(rnd_in.term_file[k][1])
                /\ term_table[k].y = DecimalValue(rnd_in.term_file[k][2])
                /\ term_table[k].battery = DecimalValue(rnd_in.term_file[k][3])
    /\ (mrg_pc = "done" /\ rnd_in.dump_open) =>
          LET kept == DumpTrees
          IN /\ num_all_fsts = IntMin2(Len(kept), MAX_ALL_FSTS)
             /\ \A k \in 1..num_all_fsts : all_fsts[k].terminal_ids = ValidIndices(kept[k])
    /\ (mrg_pc = "done" /\ rnd_in.log_open) =>
          LET kept == IdHeaders
          IN /\ num_selected_ids = IntMin2(Len(kept), MAX_SELECTED)
             /\ \A k \in 1..num_selected_ids : selected_fst_ids[k] = kept[k].hdr[1]
    /\ (sel_pc = "done" /\ rnd_in.log_open) =>
          LET kept == TreeHeaders
          IN /\ fst_count = IntMin2(Len(kept), MAX_SELECTED)
             /\ \A k \in 1..fst_count :
                   /\ fsts[k].fst_id = kept[k].hdr[1]
                   /\ fsts[k].terminal_ids = FirstTen(kept[k].terms)
    /\ rnd_pc = "failed" => (term_ret[1] <= 0 \/ ~rnd_in.html_ok)
    /\ (term_pc = "done" /\ rnd_in.term_open) => term_ret[1] >= 0

\* every table overflows in one rendering that ends with a report
C19_Witness ==
    /\ rnd_pc = "done" /\ report.closed
    /\ Len(rnd_in.term_file) > MAX_TERMINAL_TABLE /\ Len(term_table) = MAX_TERMINAL_TABLE
    /\ Len(DumpTrees) > MAX_ALL_FSTS /\ num_all_fsts = MAX_ALL_FSTS
    /\ Len(TreeHeaders) > MAX_SELECTED /\ fst_count = MAX_SELECTED
    /\ Len(IdHeaders) > MAX_SELECTED /\ num_selected_ids = MAX_SELECTED
    /\ Len(TreeHeaders[1].terms) > MAX_FST_TERMINALS
    /\ Len(fsts[1].terminal_ids) = MAX_FST_TERMINALS
    /\ Len(DumpTrees[1].tokens) > MAX_FST_TERMINALS
    /\ Len(all_fsts[1].terminal_ids) = MAX_FST_TERMINALS

\* ====================================================================
\* the order of the stages
\* ====================================================================
\* the stages of a full simulation, in the order required
Stages == <<"write_terminals", "run_efst", "run_dumpfst", "run_bb", "parse_gap", "render">>

Occurrences(e) == {k \in 1..Len(main_trace) : main_trace[k] = e}

\* C22: in a full simulation every stage runs at most once, a stage runs only
\* after all the stages before it have run, in that order, and the solver runs
\* only after tree generation and the dump step have both returned without a
\* failure.
C22_StagesInOrder ==
    main_opts.visualization_only = 0 =>
        /\ \A i \in 1..Len(Stages) : Cardinality(Occurrences(Stages[i])) <= 1
        /\ \A i \in 2..Len(Stages) :
              InTrace(Stages[i]) =>
                  /\ InTrace(Stages[i - 1])
                  /\ \A a \in Occurrences(Stages[i - 1]), b \in Occurrences(Stages[i]) : a < b
        /\ InTrace("run_bb") => ~InTrace("err_efst") /\ ~InTrace("err_dumpfst")

\* a full simulation that went through all six stages
C22_Witness ==
    /\ Exited /\ main_opts.visualization_only = 0
    /\ \A i \in 1..Len(Stages) : InTrace(Stages[i])
    /\ main_trace[Len(main_trace)] = "success"

\* ====================================================================
\* the two scans of the tree headers
\* ====================================================================
TreeIds == [k \in 1..fst_count |-> fsts[k].fst_id]

\* C23: for a log of at most 50 header lines the ids of the trees returned by
\* parse_fsts_from_solution are, in order, the ids returned by
\* parse_selected_fst_ids.
C23_TreeIdsEqualSelectedIds ==
    (rnd_pc \in {"draw", "metrics", "gap", "done"} /\ rnd_in.log_open
        /\ Len(IdHeaders) <= MAX_SELECTED) =>
        TreeIds = SubSeq(selected_fst_ids, 1, num_selected_ids)

\* ====================================================================
\* the metrics table
\* ====================================================================
\* C25: in every report written the metrics rows are consistent: the selected
\* trees are between 0 and the total of candidate trees, that total is not
\* negative, covered plus uncovered terminals is the total of terminals, and
\* there is at least one terminal.
C25_MetricsConsistent ==
    report.closed =>
        /\ 0 <= report.metrics.selected
        /\ report.metrics.selected <= report.metrics.total
        /\ report.metrics.total >= 0
        /\ report.metrics.covered + report.metrics.uncovered = report.metrics.terminals
        /\ report.metrics.terminals >= 1

\* ====================================================================
\* the edges of the diagram and the table reads behind them
\* ====================================================================
Drawn == rnd_pc \in {"metrics", "gap", "done"}

\* the number of selected trees the renderer holds (none when the log is missing)
SelectedCount == IF num_selected_fsts < 0 THEN 0 ELSE num_selected_fsts

InRange(t) == t >= 0 /\ t < Len(term_table)

\* where the report shows terminal t
CircleAt(t) == report.circles[t + 1].at

JunctionAt(f) ==
    scale_coordinates(Rat(f.steiner_points[1][1], 10), Rat(f.steiner_points[1][2], 10))

BothInRange(pair) == InRange(pair[1]) /\ InRange(pair[2])

ConsecutivePairs(ids) == [j \in 1..(Len(ids) - 1) |-> <<ids[j], ids[j + 1]>>]

\* the edges of one tree: a star from the junction, or a chain of the
\* terminals, over the indices that are in the terminal table
TreeEdges(f) ==
    IF Len(f.steiner_points) > 0
    THEN LET ends == SelectSeq(f.terminal_ids, InRange)
         IN [j \in 1..Len(ends) |-> JunctionAt(f) \o CircleAt(ends[j])]
    ELSE LET pairs == SelectSeq(ConsecutivePairs(f.terminal_ids), BothInRange)
         IN [j \in 1..Len(pairs) |-> CircleAt(pairs[j][1]) \o CircleAt(pairs[j][2])]

RECURSIVE EdgesOfTrees(_, _)
EdgesOfTrees(fs, k) == IF k = 0 THEN <<>> ELSE EdgesOfTrees(fs, k - 1) \o TreeEdges(fs[k])

\* the number of edges of one tree when every terminal index counts
NominalEdges(f) ==
    IF Len(f.steiner_points) > 0 THEN Len(f.terminal_ids) ELSE Len(f.terminal_ids) - 1

RECURSIVE NominalTotal(_, _)
NominalTotal(fs, k) == IF k = 0 THEN 0 ELSE NominalTotal(fs, k - 1) + NominalEdges(fs[k])

\* C21 as stated: the diagram holds, for every selected tree, one edge per
\* terminal of a tree with a junction and k - 1 edges for the k terminals of a
\* tree without one, and no other edge.
C21_EdgePerTerminal ==
    Drawn => Len(report.edges) = NominalTotal(fsts, SelectedCount)

\* C21, amended: the edges of the diagram are exactly those of the selected
\* trees, tree after tree: from the junction to each terminal of the tree that
\* is in the terminal table, or, without a junction, between each consecutive
\* pair of the tree's terminals that are both in the table; trees of the
\* universe add nothing.
C21_EdgesToTerminalsInTable ==
    Drawn =>
        /\ report.edges = EdgesOfTrees(fsts, SelectedCount)
        /\ num_all_fsts > 0 /\ SelectedCount = 0 => report.edges = <<>>

\* a junction tree of three terminals and a universe of two trees: three edges
C21_Witness ==
    /\ rnd_pc = "done" /\ num_all_fsts = 2 /\ num_selected_fsts = 1
    /\ Len(fsts[1].steiner_points) = 1 /\ Len(fsts[1].terminal_ids) = 3
    /\ Len(term_table) = 3 /\ Len(report.edges) = 3

\* C24: every index with which the drawing and the tables of the report read
\* terminals[] is in 0 .. parsed terminals - 1, every index into
\* selected_fsts[] below the count parse_fsts_from_solution returned and every
\* index into all_fsts[] below the count parse_fsts_from_dump returned, also
\* when the log names indices that are negative or not below the terminal count.
C24_ReadsWithinParsedTables ==
    /\ report.reads.terminals \subseteq
           (IF term_ret = None THEN {} ELSE 0..(term_ret[1] - 1))
    /\ report.reads.terminals \subseteq 0..(Len(term_table) - 1)
    /\ report.reads.selected \subseteq 0..(fst_count - 1)
    /\ report.reads.selected \subseteq 0..(Len(fsts) - 1)
    /\ report.reads.all \subseteq 0..(Len(all_fsts) - 1)
    /\ report.reads.all \subseteq 0..(num_all_fsts - 1)

\* a drawn tree that names the index -1 and an index past the terminal table
C24_Witness ==
    /\ rnd_pc = "done" /\ Len(term_table) = 2 /\ num_selected_fsts = 2
    /\ \E k \in 1..2 : \E j \in 1..Len(fsts[k].terminal_ids) : fsts[k].terminal_ids[j] < 0
    /\ \E k \in 1..2 : \E j \in 1..Len(fsts[k].terminal_ids) : fsts[k].terminal_ids[j] >= 2
    /\ report.reads.terminals = {0, 1} /\ report.reads.selected = {0, 1}

\* ====================================================================
\* progress of the selected-tree parser
\* ====================================================================
\* the number of header lines among the first p lines of the log
HeadersUpTo(p) == Cardinality({i \in HeaderAt(sel_log) : i <= p})

\* this step records a tree
RecordsTree == Len(fsts') = Len(fsts) + 1

\* this step ends the lookahead of the tree just recorded
EndsLookahead == sel_pc = "inner" /\ sel_pc' = "outer"

\* C26: every tree is recorded from a header line that lies after all header
\* lines recorded before (so no header is recorded twice), the lookahead of a
\* tree hands the scan back at a line after that tree's header, and on every
\* log the parser returns after finitely many steps.
C26_ParserProgressesAndTerminates ==
    /\ [][/\ RecordsTree =>
                /\ AcceptsHeader(sel_log[sel_pos + 1])
                /\ HeadersUpTo(sel_pos) = Len(fsts)
          /\ EndsLookahead =>
                \A i \in HeaderAt(sel_log) : HeadersUpTo(i) <= Len(fsts) => sel_pos' >= i
          /\ sel_pc = "outer" /\ sel_pc' = "outer" => sel_pos' = sel_pos + 1]_vars
    /\ <>(sel_pc = "done")

\* a lookahead was stopped by the next header and rewound, and both headers
\* were recorded
C26_Witness ==
    /\ sel_pc = "done" /\ fst_count = 2 /\ Len(sel_log) = 3
    /\ AcceptsHeader(sel_log[1]) /\ sel_log[2].geom # None /\ AcceptsHeader(sel_log[3])
    /\ sel_pos = 3

====
